---- MODULE Spec2Model ----
(***************************************************************************)
(* A model of the conversational client:                                   *)
(*   - the inline command interpreter of ChatInterface.handleSend          *)
(*     (src/components/ChatInterface.tsx),                                 *)
(*   - the newline-delimited JSON decoder streamTextResponse               *)
(*     (src/unnamed/part_000, src/services/geminiService.ts),              *)
(*   - the live voice session controller and playback scheduler of         *)
(*     TalkInterface (src/unnamed/part_000).                               *)
(*                                                                         *)
(* Text is a sequence of UTF-16 code units, each written as a one-element  *)
(* string; a byte stream is a sequence of byte tokens.  Every action is    *)
(* one run-to-completion task of the JavaScript event loop: it runs from   *)
(* one suspension point (await, callback entry) to the next.               *)
(***************************************************************************)
EXTENDS Integers, Sequences, FiniteSets, TLC

VARIABLES
    \* ---- ChatInterface (src/components/ChatInterface.tsx)
    messages,                 \* useState<Message[]>
    isLoading,                \* useState(false)
    generationSessionIdRef,   \* useRef(0)
    idClock,                  \* Date.now() as used for message ids
    hs,                       \* the handleSend invocations, by session id
    \* ---- streamTextResponse (src/unnamed/part_000, lines 24-69)
    body,                     \* what the backend wrote as the response body
    wire,                     \* the bytes of the body not yet read
    decoderPending,           \* TextDecoder: bytes of an incomplete character
    decodeBuffer,             \* let buffer = ''
    pendingLines,             \* the lines of the for loop not yet visited
    yielded,                  \* the units handed to the consumer, in order
    cuts,                     \* where fragments ended: in a line, in a character
    dpc,                      \* where the generator is suspended
    \* ---- TalkInterface (src/unnamed/part_000, lines 163-304)
    talk,                     \* the component: its state, its refs, and the
                              \* browser objects its handlers hold
    clock,                    \* currentTime of the output audio context
    decoding,                 \* onmessage handlers suspended at line 250
    sched,                    \* the last two buffers passed to start()
    arrivals,                 \* inbound messages delivered so far
    \* ---- the agent chat (src/unnamed/part_001, lines 19-106)
    agentMessages,            \* useState<Message[]>([])
    isTyping,                 \* useState(false)
    agentError,               \* useState<string | null>(null), set or not
    hm,                       \* the handleSendMessage invocation
    \* ---- getAiClient (src/unnamed/part_000, lines 6-22)
    ai,                       \* let ai: GoogleGenAI | null = null
    gc,                       \* the getAiClient invocations
    clientsMade,              \* GoogleGenAI objects constructed so far
    \* ---- startLiveConversation (src/unnamed/part_000, lines 72-107;
    \*      src/services/geminiService.ts, lines 131-169)
    slc,                      \* the startLiveConversation invocation
    \* ---- the [REACT:x] updater (src/components/ChatInterface.tsx, 111-123)
    rc,                       \* one call of the updater: its arguments
    \* ---- the live transcript (src/unnamed/part_000, lines 166, 220-221,
    \*      261-276)
    tr,                       \* the transcript, the two accumulators and the
                              \* state updaters React has not run yet
    \* ---- createBlob (src/unnamed/part_000, lines 124-134)
    blob                      \* one call: data, int16 and the frame returned

chatVars == <<messages, isLoading, generationSessionIdRef, idClock, hs>>
decVars ==
    <<body, wire, decoderPending, decodeBuffer, pendingLines, yielded, cuts, dpc>>

liveVars == <<talk, clock, decoding, sched, arrivals>>

agentVars == <<agentMessages, isTyping, agentError, hm>>

aiVars == <<ai, gc, clientsMade>>

vars == <<chatVars, decVars, liveVars, agentVars, aiVars, slc, rc, tr, blob>>

notChatVars == <<decVars, liveVars, agentVars, aiVars, slc, rc, tr, blob>>
notDecVars == <<chatVars, liveVars, agentVars, aiVars, slc, rc, tr, blob>>
notLiveVars == <<chatVars, decVars, agentVars, aiVars, slc, rc, tr, blob>>
notAgentVars == <<chatVars, decVars, liveVars, aiVars, slc, rc, tr, blob>>
notAiVars == <<chatVars, decVars, liveVars, agentVars, slc, rc, tr, blob>>
notSetupVars == <<chatVars, decVars, liveVars, agentVars, rc, tr, blob>>
notReactVars ==
    <<isLoading, generationSessionIdRef, idClock, hs, decVars, liveVars,
      agentVars, aiVars, slc, tr, blob>>
notTranscriptVars ==
    <<chatVars, decVars, liveVars, agentVars, aiVars, slc, rc, blob>>
notBlobVars ==
    <<chatVars, decVars, liveVars, agentVars, aiVars, slc, rc, tr>>

(***************************************************************************)
(* Bounds                                                                  *)
(***************************************************************************)
MaxSends == 2      \* handleSend invocations in one behaviour
MaxChunks == 3     \* chunks a response text is split into
MaxLines == 3      \* newline-terminated lines of a response body
MaxStarts == 2     \* handleStartLive invocations that pass line 208
MaxFrames == 2     \* inbound live messages in one behaviour
MaxMessages == 3   \* messages in a list given to the [REACT:x] updater
MaxInbound == 3    \* inbound messages with transcription in one behaviour
MaxSamples == 2    \* samples in a block given to createBlob
MaxCalls == 3      \* getAiClient invocations in one behaviour
MaxClock == 1      \* ticks of the output audio clock

(***************************************************************************)
(* Text helpers                                                            *)
(***************************************************************************)
Whitespace == {" ", "\n", "\r", "\t"}

\* String.prototype.trim() !== '' : some code unit is not whitespace
NonBlank(t) == \E i \in 1..Len(t) : t[i] \notin Whitespace

\* String.prototype.substring(from) with a 0-based index
Substring(t, from) == SubSeq(t, from + 1, Len(t))

\* String.prototype.substring(from, to) with 0-based indexes, from <= to
Substring2(t, from, to) == SubSeq(t, from + 1, to)

RECURSIVE Concat(_)
Concat(ss) == IF ss = <<>> THEN <<>> ELSE Head(ss) \o Concat(Tail(ss))

SeqMap(Op(_), s) == [i \in 1..Len(s) |-> Op(s[i])]

\* the sequences over S of length at most 2
SeqsUpTo2(S) == {<<>>} \cup { <<x>> : x \in S } \cup { <<x, y>> : x \in S, y \in S }

(***************************************************************************)
(* Message and stream unit values (src/types.ts)                           *)
(***************************************************************************)
\* StreamResponse.sources: undefined, or a list
NoSources == [present |-> FALSE, list |-> <<>>]
SomeSources(list) == [present |-> TRUE, list |-> list]
NullId == 0                        \* currentBotMessageId === null
GreetingId == -1                   \* id 'initial-greeting'
ErrorMsgId == -2                   \* id 'error-msg'

Msg(id, text, sender, sources, reaction) ==
    [id |-> id, text |-> text, sender |-> sender,
     sources |-> sources, reaction |-> reaction]

Unit(text, sources) == [textChunk |-> text, sources |-> sources]

\* The greeting of line 37, kept to its first word.
GreetingText == <<"H", "e", "y", "!">>

InitialMessages == << Msg(GreetingId, GreetingText, "bot", <<>>, <<>>) >>

(***************************************************************************)
(* The directive pattern of line 88:                                       *)
(*     /(\[REACT:[^\]]+\]|\[MSG_BREAK\])/g                                 *)
(***************************************************************************)
ReactOpen == <<"[", "R", "E", "A", "C", "T", ":">>
MsgBreak == <<"[", "M", "S", "G", "_", "B", "R", "E", "A", "K", "]">>

\* pat occurs in t at the 1-based position i
OccursAt(t, i, pat) ==
    /\ i + Len(pat) - 1 <= Len(t)
    /\ SubSeq(t, i, i + Len(pat) - 1) = pat

\* the position of the first "]" at or after position i, 0 when there is none
CloseAfter(t, i) ==
    IF \E j \in i..Len(t) : t[j] = "]"
    THEN CHOOSE j \in i..Len(t) : t[j] = "]" /\ \A k \in i..(j - 1) : t[k] # "]"
    ELSE 0

\* \[REACT:[^\]]+\] matches at position i: the payload is one or more
\* code units other than "]", then "]"
ReactMatchesAt(t, i) ==
    /\ OccursAt(t, i, ReactOpen)
    /\ CloseAfter(t, i + Len(ReactOpen)) > i + Len(ReactOpen)

\* the 1-based position of the last code unit of the match at i
MatchEndAt(t, i) ==
    IF ReactMatchesAt(t, i) THEN CloseAfter(t, i + Len(ReactOpen))
    ELSE i + Len(MsgBreak) - 1

MatchesAt(t, i) == ReactMatchesAt(t, i) \/ OccursAt(t, i, MsgBreak)

\* commandRegex.exec(buffer) with commandRegex.lastIndex = from (0-based):
\* the leftmost match starting at or after from
RegexExec(t, from) ==
    IF \E i \in (from + 1)..Len(t) : MatchesAt(t, i)
    THEN LET i == CHOOSE p \in (from + 1)..Len(t) :
                      MatchesAt(t, p) /\ \A q \in (from + 1)..(p - 1) : ~MatchesAt(t, q)
         IN [found |-> TRUE,
             index |-> i - 1,                       \* match.index
             lastIndex |-> MatchEndAt(t, i),        \* commandRegex.lastIndex
             command |-> SubSeq(t, i, MatchEndAt(t, i))]
    ELSE [found |-> FALSE, index |-> 0, lastIndex |-> 0, command |-> <<>>]

\* command.startsWith('[REACT:')
IsReact(command) == OccursAt(command, 1, ReactOpen)

\* command.match(/\[REACT:([^\]]+)\]/)[1]
ReactEmoji(command) == SubSeq(command, Len(ReactOpen) + 1, Len(command) - 1)

(***************************************************************************)
(* The state updaters handleSend passes to setMessages                     *)
(***************************************************************************)

\* lines 99-106 and 137-144: text is appended to the bubble currentBotMessageId
\* names, or opens a new bubble when there is none.  The result carries the
\* new message list, the new currentBotMessageId and the id clock.
AppendProse(msgs, cur, idc, text) ==
    IF text = <<>> THEN [msgs |-> msgs, cur |-> cur, idc |-> idc]
    ELSE IF cur = NullId
         THEN [msgs |-> Append(msgs, Msg(idc + 1, text, "bot", <<>>, <<>>)),
               cur |-> idc + 1, idc |-> idc + 1]
         ELSE [msgs |-> [i \in 1..Len(msgs) |->
                           IF msgs[i].id = cur
                           THEN [msgs[i] EXCEPT !.text = @ \o text]
                           ELSE msgs[i]],
               cur |-> cur, idc |-> idc]

\* lines 113-119: the index of the last user message, 0 when there is none
LastUserMessageIndex(msgs) ==
    IF \E i \in 1..Len(msgs) : msgs[i].sender = "user"
    THEN CHOOSE i \in 1..Len(msgs) :
            /\ msgs[i].sender = "user"
            /\ \A j \in (i + 1)..Len(msgs) : msgs[j].sender # "user"
    ELSE 0

\* the reaction is assigned whether or not the message has one
ApplyReactOverwriting(msgs, emoji) ==
    LET i == LastUserMessageIndex(msgs)
    IN IF i # 0 THEN [msgs EXCEPT ![i].reaction = emoji] ELSE msgs

\* lines 111-124: the [REACT:x] updater
ApplyReact(msgs, emoji) ==
    LET i == LastUserMessageIndex(msgs)
    IN IF i # 0 /\ msgs[i].reaction = <<>>
       THEN [msgs EXCEPT ![i].reaction = emoji]
       ELSE msgs

\* every incoming source is appended
MergeSourcesAppendAll(existing, incoming) == existing \o incoming

\* lines 156-158: the sources of a bubble merged with a chunk's sources
MergeSources(existing, incoming) ==
    LET existingUris == {existing[i].uri : i \in 1..Len(existing)}
        IsNew(x) == x.uri \notin existingUris
    IN existing \o SelectSeq(incoming, IsNew)

\* every chunk with sources opens a bubble of its own
ApplySourcesAlwaysNew(msgs, cur, idc, sources) ==
    IF ~sources.present THEN [msgs |-> msgs, cur |-> cur, idc |-> idc]
    ELSE [msgs |-> Append(msgs, Msg(idc + 1, <<>>, "bot", sources.list, <<>>)),
          cur |-> idc + 1, idc |-> idc + 1]

\* lines 149-163: a chunk's sources are attached to the current bubble, or
\* open a bubble with empty text when there is none
ApplySources(msgs, cur, idc, sources) ==
    IF ~sources.present THEN [msgs |-> msgs, cur |-> cur, idc |-> idc]
    ELSE IF cur = NullId
         THEN [msgs |-> Append(msgs, Msg(idc + 1, <<>>, "bot", sources.list, <<>>)),
               cur |-> idc + 1, idc |-> idc + 1]
         ELSE [msgs |-> [i \in 1..Len(msgs) |->
                           IF msgs[i].id = cur
                           THEN [msgs[i] EXCEPT !.sources = MergeSources(@, sources.list)]
                           ELSE msgs[i]],
               cur |-> cur, idc |-> idc]

\* line 82: the filter a superseded stream applies before it returns
StaleFilter(msgs, cur) ==
    LET Keep(m) == m.id # cur \/ NonBlank(m.text)
    IN SelectSeq(msgs, Keep)

\* line 176: the final cleanup of empty bubbles
\* nothing is removed
FinalCleanupNone(msgs) == msgs

FinalCleanup(msgs) ==
    LET Keep(m) == NonBlank(m.text) \/ Len(m.sources) > 0
    IN SelectSeq(msgs, Keep)

\* lines 167-171: the catch block
ApplyStreamError(msgs, cur) ==
    IF cur # NullId
    THEN [i \in 1..Len(msgs) |->
            IF msgs[i].id = cur
            THEN [msgs[i] EXCEPT !.text = @ \o <<"\n", "\n", "O", "o", "p", "s">>]
            ELSE msgs[i]]
    ELSE Append(msgs, Msg(ErrorMsgId, <<"O", "o", "p", "s">>, "bot", <<>>, <<>>))

(***************************************************************************)
(* The interpreter loop of handleSend, lines 88-146                        *)
(***************************************************************************)

\* lines 93-131: the while loop over the complete commands of the buffer,
\* from the regex position `from`, up to its next suspension: the await of
\* line 127 after [MSG_BREAK] (paused), or the end of the loop.
RECURSIVE ScanCommands(_, _, _, _, _)
ScanCommands(msgs, cur, idc, buffer, from) ==
    LET m == RegexExec(buffer, from)
    IN IF ~m.found
       THEN [msgs |-> msgs, cur |-> cur, idc |-> idc,
             lastIndex |-> from, paused |-> FALSE]
       ELSE LET textPart == Substring2(buffer, from, m.index)
                a == AppendProse(msgs, cur, idc, textPart)
            IN IF IsReact(m.command)
               THEN ScanCommands(ApplyReact(a.msgs, ReactEmoji(m.command)),
                                 a.cur, a.idc, buffer, m.lastIndex)
               ELSE [msgs |-> a.msgs, cur |-> NullId, idc |-> a.idc,
                     lastIndex |-> m.lastIndex, paused |-> TRUE]

\* line 134: the buffer after the loop
BufferAfterCommands(buffer, lastIndex) == Substring(buffer, lastIndex)

\* line 146: the buffer kept for the next chunk
BufferKept(rest, lastIndex) == Substring(rest, lastIndex)

\* lines 133-163: what follows the loop for one chunk: the tail of the buffer
\* is appended as prose, the buffer is cut again, the chunk's sources applied
AfterCommands(msgs, cur, idc, buffer, lastIndex, sources) ==
    LET rest == BufferAfterCommands(buffer, lastIndex)
        a == AppendProse(msgs, cur, idc, rest)
        b == ApplySources(a.msgs, a.cur, a.idc, sources)
    IN [msgs |-> b.msgs, cur |-> b.cur, idc |-> b.idc,
        buffer |-> BufferKept(rest, lastIndex)]

(***************************************************************************)
(* The inputs of the chat model                                            *)
(***************************************************************************)

\* "hi [REACT:<emoji>] there"; the emoji is one astral character, two
\* UTF-16 code units
ReactText ==
    <<"h", "i", " ", "[", "R", "E", "A", "C", "T", ":", "eH", "eL", "]",
      " ", "t", "h", "e", "r", "e">>

Emoji == <<"eH", "eL">>

\* the two units of the end-to-end scenario
HeyText == <<"H", "e", "y", "!">>
BreakHowText ==
    <<" ", "[", "M", "S", "G", "_", "B", "R", "E", "A", "K", "]",
      "H", "o", "w", " ", "a", "r", "e", " ", "y", "o", "u", "?">>
HowText == <<"H", "o", "w", " ", "a", "r", "e", " ", "y", "o", "u", "?">>
ScenarioUnits == << Unit(HeyText, NoSources), Unit(BreakHowText, NoSources) >>

SourceA == [uri |-> "a", title |-> "A"]
SourceB == [uri |-> "b", title |-> "B"]
SourceA2 == [uri |-> "a", title |-> "A2"]      \* the uri of SourceA again

\* a unit whose own list repeats a uri, merged into an open bubble
RepeatedUriUnits == << Unit(<<"o", "k">>, SomeSources(<<SourceA, SourceA2>>)) >>

\* a unit whose own list repeats a uri, opening the bubble
RepeatedUriFirstUnits ==
    << Unit(<<>>, SomeSources(<<SourceA, SourceA2>>)),
       Unit(<<"o", "k">>, NoSources) >>

\* the source lists a unit may carry
SourceLists == SeqsUpTo2({SourceA, SourceB, SourceA2})
SourcedUnits ==
    << Unit(<<"o", "k">>, SomeSources(<<SourceA>>)),
       Unit(<<>>, SomeSources(<<SourceA, SourceB>>)) >>

\* sources arrive before any prose
SourcesFirstUnits ==
    << Unit(<<>>, SomeSources(<<SourceA>>)), Unit(<<"o", "k">>, NoSources) >>

\* a response that ends in a bubble of whitespace
BlankTailUnits == << Unit(<<"a">> \o MsgBreak \o <<" ">>, NoSources) >>

\* a response that is a reaction and nothing else
ReactOnlyUnits == << Unit(ReactOpen \o Emoji \o <<"]">>, NoSources) >>

\* every way of cutting t into at most n non-empty chunks
RECURSIVE Splits(_, _)
Splits(t, n) ==
    IF n <= 1 \/ Len(t) <= 1 THEN {<<t>>}
    ELSE {<<t>>} \cup
         UNION { { <<SubSeq(t, 1, k)>> \o r :
                     r \in Splits(SubSeq(t, k + 1, Len(t)), n - 1) } :
                 k \in 1..(Len(t) - 1) }

TextUnits(chunks) == [i \in 1..Len(chunks) |-> Unit(chunks[i], NoSources)]

\* "[REACT:<emoji>]a[MSG_BREAK]c": a reaction, prose, a break, prose
BreakText == ReactOpen \o Emoji \o <<"]", "a">> \o MsgBreak \o <<"c">>

\* the unit sequences a backend response is drawn from
Responses ==
    { TextUnits(c) : c \in Splits(ReactText, MaxChunks) }
        \cup { TextUnits(c) : c \in Splits(BreakText, 2) }
        \cup {ScenarioUnits, SourcedUnits, SourcesFirstUnits, ReactOnlyUnits,
              RepeatedUriUnits, RepeatedUriFirstUnits, BlankTailUnits}

\* a response of three units with a pause in the second
ThreeUnits ==
    << Unit(<<"a">>, NoSources),
       Unit(MsgBreak \o <<"b">>, NoSources),
       Unit(<<"c">>, NoSources) >>

\* the responses of the behaviours with several messages in flight
ConcResponses ==
    {ScenarioUnits, SourcedUnits, ThreeUnits, SourcesFirstUnits, BlankTailUnits}

\* what the user may have typed when handleSend runs
Inputs == { <<"y", "o">>, <<" ">> }

\* the glyphs a [REACT:x] command may carry
Glyphs == { Emoji, <<"x">> }

\* the message lists the updater may be given: up to MaxMessages messages,
\* each from the user or the bot, each with or without a reaction
ReactMessage(i, kind) ==
    Msg(i, <<"m">>, kind.sender, <<>>, kind.reaction)

MessageKinds == [sender : {"user", "bot"}, reaction : {<<>>, <<"r">>}]

ReactInputs ==
    UNION { { [i \in 1..n |-> ReactMessage(i, ks[i])] :
                ks \in [1..n -> MessageKinds] } : n \in 0..MaxMessages }

IdleReact == [pc |-> "idle", emoji |-> <<>>, prev |-> <<>>]

\* lines 111-123: React calls the updater with the current list
CallReactUpdater ==
    /\ rc.pc = "called"
    /\ messages' = ApplyReact(rc.prev, rc.emoji)
    /\ rc' = [rc EXCEPT !.pc = "returned"]
    /\ UNCHANGED notReactVars

ResponseText(resp) == Concat([i \in 1..Len(resp) |-> resp[i].textChunk])

(***************************************************************************)
(* handleSend, lines 53-179                                                *)
(***************************************************************************)
Sessions == 1..MaxSends

IdleHandler ==
    [pc |-> "idle", cur |-> NullId, buffer |-> <<>>, lastIndex |-> 0,
     resp |-> <<>>, k |-> 0]

InitialHandlers == [s \in Sessions |-> IdleHandler]

\* lines 53-79: from the click to the first await of the stream
Send(input, resp) ==
    /\ NonBlank(input)                                        \* line 54
    /\ generationSessionIdRef < MaxSends
    /\ generationSessionIdRef' = generationSessionIdRef + 1   \* line 56
    /\ idClock' = idClock + 1
    /\ messages' = Append(messages, Msg(idClock + 1, input, "user", <<>>, <<>>))
    /\ isLoading' = TRUE
    /\ hs' = [hs EXCEPT ![generationSessionIdRef + 1] =
                [pc |-> "await", cur |-> NullId, buffer |-> <<>>,
                 lastIndex |-> 0, resp |-> resp, k |-> 0]]
    /\ UNCHANGED notChatVars

\* lines 93-146 from a regex position on, shared by the arrival of a chunk
\* and the resumption after the pause of line 127
RunInterpreter(s, buffer, from, k) ==
    LET h == hs[s]
        r == ScanCommands(messages, h.cur, idClock, buffer, from)
    IN IF r.paused
       THEN /\ messages' = r.msgs
            /\ idClock' = r.idc
            /\ hs' = [hs EXCEPT ![s] = [h EXCEPT !.pc = "wait", !.cur = r.cur,
                                          !.buffer = buffer,
                                          !.lastIndex = r.lastIndex, !.k = k]]
       ELSE LET t == AfterCommands(r.msgs, r.cur, r.idc, buffer, r.lastIndex,
                                   h.resp[k].sources)
            IN /\ messages' = t.msgs
               /\ idClock' = t.idc
               /\ hs' = [hs EXCEPT ![s] = [h EXCEPT !.pc = "await", !.cur = t.cur,
                                             !.buffer = t.buffer,
                                             !.lastIndex = r.lastIndex, !.k = k]]

\* the test is never true
IsStaleNever(s) == FALSE

\* line 81: the counter has moved on since this invocation captured its id
IsStale(s) == generationSessionIdRef # s

\* lines 80-146: the stream delivers the next unit
NextChunk(s) ==
    /\ hs[s].pc = "await"
    /\ hs[s].k < Len(hs[s].resp)
    /\ IF IsStale(s)
       THEN \* lines 81-84, then the finally block, whose test fails
            /\ messages' = StaleFilter(messages, hs[s].cur)
            /\ hs' = [hs EXCEPT ![s].pc = "cancelled"]
            /\ UNCHANGED <<isLoading, generationSessionIdRef, idClock>>
       ELSE /\ RunInterpreter(s, hs[s].buffer \o hs[s].resp[hs[s].k + 1].textChunk,
                              0, hs[s].k + 1)
            /\ UNCHANGED <<isLoading, generationSessionIdRef>>
    /\ UNCHANGED notChatVars

\* line 127 resolves: the loop goes on from line 130
WaitDone(s) ==
    /\ hs[s].pc = "wait"
    /\ RunInterpreter(s, hs[s].buffer, hs[s].lastIndex, hs[s].k)
    /\ UNCHANGED <<isLoading, generationSessionIdRef>>
    /\ UNCHANGED notChatVars

\* the test always succeeds
IsCurrentAlways(s) == TRUE

\* line 173: the counter still holds the id this invocation captured
IsCurrent(s) == generationSessionIdRef = s

\* lines 172-178: the finally block; pc records how the stream ended
Finally(s, msgs, pc) ==
    /\ IF IsCurrent(s)
       THEN /\ isLoading' = FALSE
            /\ messages' = FinalCleanup(msgs)
       ELSE /\ isLoading' = isLoading
            /\ messages' = msgs
    /\ hs' = [hs EXCEPT ![s].pc = pc]
    /\ UNCHANGED <<generationSessionIdRef, idClock>>
    /\ UNCHANGED notChatVars

\* the stream ends: the loop of line 80 exits
StreamEnd(s) ==
    /\ hs[s].pc = "await"
    /\ hs[s].k = Len(hs[s].resp)
    /\ Finally(s, messages, "done")

\* the stream throws instead of delivering a unit: lines 165-171
StreamThrows(s) ==
    /\ hs[s].pc = "await"
    /\ hs[s].k < Len(hs[s].resp)
    /\ Finally(s, ApplyStreamError(messages, hs[s].cur), "failed")

\* one message is sent and its response streamed
FirstSend(input, resp) ==
    /\ generationSessionIdRef = 0
    /\ Send(input, resp)

(***************************************************************************)
(* streamTextResponse: the decoder of newline-delimited JSON units          *)
(* (src/unnamed/part_000 lines 24-69; the same code is                      *)
(* src/services/geminiService.ts lines 229-292)                             *)
(***************************************************************************)

\* Bytes are tokens: an ASCII byte is written as its character; "c3" "a9"
\* are the two bytes of the character "e'" (U+00E9).
LeadByte == "c3"
ContByte == "a9"
TwoByteChar == "e'"
Replacement == "U+FFFD"

\* decoder.decode(value, {stream: true}) on the bytes held back followed by
\* value: the characters decoded, and the bytes of a character still
\* incomplete, which are held back for the next call
RECURSIVE Utf8Decode(_)
Utf8Decode(bytes) ==
    IF bytes = <<>> THEN [text |-> <<>>, pending |-> <<>>]
    ELSE IF Head(bytes) = LeadByte
    THEN IF Len(bytes) = 1 THEN [text |-> <<>>, pending |-> bytes]
         ELSE IF bytes[2] = ContByte
              THEN LET r == Utf8Decode(SubSeq(bytes, 3, Len(bytes)))
                   IN [text |-> <<TwoByteChar>> \o r.text, pending |-> r.pending]
              ELSE LET r == Utf8Decode(Tail(bytes))
                   IN [text |-> <<Replacement>> \o r.text, pending |-> r.pending]
    ELSE LET r == Utf8Decode(Tail(bytes))
         IN [text |-> <<IF Head(bytes) = ContByte THEN Replacement
                          ELSE Head(bytes)>> \o r.text,
             pending |-> r.pending]

\* String.prototype.split('\n'): one more segment than there are newlines
RECURSIVE SplitLines(_)
SplitLines(t) ==
    IF \E i \in 1..Len(t) : t[i] = "\n"
    THEN LET i == CHOOSE p \in 1..Len(t) :
                      t[p] = "\n" /\ \A q \in 1..(p - 1) : t[q] # "\n"
         IN <<SubSeq(t, 1, i - 1)>> \o SplitLines(SubSeq(t, i + 1, Len(t)))
    ELSE <<t>>

\* the incomplete last line is dropped instead of kept
LastLineDropped(ls) == <<>>

\* lines.pop() || '' (lines is never empty)
LastLine(ls) == ls[Len(ls)]

\* lines after lines.pop()
CompleteLines(ls) == SubSeq(ls, 1, Len(ls) - 1)

\* String.prototype.trim()
RECURSIVE TrimLeft(_)
TrimLeft(t) ==
    IF t # <<>> /\ Head(t) \in Whitespace THEN TrimLeft(Tail(t)) ELSE t

RECURSIVE TrimRight(_)
TrimRight(t) ==
    IF t # <<>> /\ t[Len(t)] \in Whitespace
    THEN TrimRight(SubSeq(t, 1, Len(t) - 1)) ELSE t

Trim(t) == TrimRight(TrimLeft(t))

\* JSON.parse on the JSON texts the modelled backend writes.  A unit
\* {"textChunk":"<payload>"} is written "{" payload "}"; the payload holds
\* no brace.  Whitespace around the text is ignored; any other text is a
\* SyntaxError.
JsonParses(t) ==
    LET u == Trim(t)
    IN /\ Len(u) >= 2
       /\ u[1] = "{"
       /\ u[Len(u)] = "}"
       /\ \A i \in 2..(Len(u) - 1) : u[i] \notin {"{", "}"}

JsonParse(t) ==
    LET u == Trim(t)
    IN Unit(SubSeq(u, 2, Len(u) - 1), NoSources)

\* lines 55-63: a line is yielded when it is not blank and parses;
\* a line that fails to parse is logged and skipped
Yieldable(line) == NonBlank(line) /\ JsonParses(line)

\* a line that does not yield ends the loop
SkipToYieldHalting(ls) ==
    IF ls = <<>> \/ Yieldable(Head(ls)) THEN ls ELSE <<>>

\* lines 55-63: the for loop runs over the lines up to its next yield
RECURSIVE SkipToYield(_)
SkipToYield(ls) ==
    IF ls = <<>> \/ Yieldable(Head(ls)) THEN ls ELSE SkipToYield(Tail(ls))

\* the text of the synthetic error unit of line 67
ErrorText == <<"E", "r", "r", "o", "r">>

\* ---- the response bodies the backend may write
LineKinds == { <<"{", "a", "}">>,               \* {"textChunk":"a"}
               <<"{", "c3", "a9", "}">>,        \* {"textChunk":"e'"}
               <<" ", "{", "b", "}", "\r">>,    \* a unit with whitespace around it
               <<"N", "O", "T">>,               \* not JSON
               <<>> }                           \* an empty line

UnitLineKinds == { <<"{", "a", "}">>, <<"{", "c3", "a9", "}">>,
                   <<" ", "{", "b", "}", "\r">> }

TailKinds == { <<>>,                            \* the body ends with a newline
               <<"{", "b", "}">>,               \* a complete unit, no newline
               <<"{", "b">>,                    \* an incomplete unit
               <<" ">> }                        \* blank

RECURSIVE SeqsUpTo(_, _)
SeqsUpTo(S, n) ==
    IF n = 0 THEN {<<>>}
    ELSE {<<>>} \cup { <<x>> \o r : x \in S, r \in SeqsUpTo(S, n - 1) }

Bodies == [ls : SeqsUpTo(LineKinds, MaxLines), tail : TailKinds]

\* the bytes of a body: every line followed by a newline, then the tail
BodyBytes(b) ==
    Concat([i \in 1..Len(b.ls) |-> b.ls[i] \o <<"\n">>]) \o b.tail

\* the unit a line of the body stands for, as the backend meant it
UnitOfLine(line) ==
    IF line = <<"{", "a", "}">> THEN Unit(<<"a">>, NoSources)
    ELSE IF line = <<"{", "c3", "a9", "}">> THEN Unit(<<TwoByteChar>>, NoSources)
    ELSE Unit(<<"b">>, NoSources)

IsUnitLine(line) == line \in UnitLineKinds

\* lines 30-40: the fetch resolves with an OK status and a body
FetchOk ==
    /\ dpc = "fetch"
    /\ dpc' = "read"
    /\ UNCHANGED <<body, wire, decoderPending, decodeBuffer, pendingLines,
                   yielded, cuts, notDecVars>>

\* lines 30-36 and 65-68: the fetch rejects, or the status is not OK, or
\* there is no body: one synthetic unit is yielded
FetchFails ==
    /\ dpc = "fetch"
    /\ yielded' = Append(yielded, Unit(ErrorText, NoSources))
    /\ dpc' = "failed"
    /\ UNCHANGED <<body, wire, decoderPending, decodeBuffer, pendingLines,
                   cuts, notDecVars>>

\* lines 55-63 from the lines ls on: up to the next yield, or to the next
\* reader.read() when no line is left to yield
RunLines(ls) ==
    LET rest == SkipToYield(ls)
    IN IF rest = <<>>
       THEN /\ pendingLines' = <<>>
            /\ dpc' = "read"
            /\ yielded' = yielded
       ELSE /\ pendingLines' = Tail(rest)
            /\ dpc' = "yielded"
            /\ yielded' = Append(yielded, JsonParse(Head(rest)))

\* where the fragment of the first n bytes of w ends
CutsOf(w, n) ==
    (IF n < Len(w) /\ w[n] # "\n" THEN {"line"} ELSE {})
        \cup (IF n < Len(w) /\ w[n] = LeadByte THEN {"char"} ELSE {})

\* lines 43-63: reader.read() resolves with the next n bytes
ReadFragment(n) ==
    /\ dpc = "read"
    /\ n \in 1..Len(wire)
    /\ LET d == Utf8Decode(decoderPending \o SubSeq(wire, 1, n))    \* line 51
           ls == SplitLines(decodeBuffer \o d.text)                        \* line 52
       IN /\ decoderPending' = d.pending
          /\ decodeBuffer' = LastLine(ls)                                  \* line 53
          /\ RunLines(CompleteLines(ls))
    /\ wire' = SubSeq(wire, n + 1, Len(wire))
    /\ cuts' = cuts \cup CutsOf(wire, n)
    /\ UNCHANGED <<body, notDecVars>>

\* the consumer asks for the next unit: the generator resumes after a yield
ConsumerNext ==
    /\ dpc = "yielded"
    /\ RunLines(pendingLines)
    /\ UNCHANGED <<body, wire, decoderPending, decodeBuffer, cuts, notDecVars>>

\* lines 44-49: reader.read() resolves with done
ReadDone ==
    /\ dpc = "read"
    /\ wire = <<>>
    /\ yielded' = IF NonBlank(decodeBuffer) /\ JsonParses(decodeBuffer)
                  THEN Append(yielded, JsonParse(decodeBuffer))
                  ELSE yielded
    /\ dpc' = "done"
    /\ UNCHANGED <<body, wire, decoderPending, decodeBuffer, pendingLines,
                   cuts, notDecVars>>

\* lines 43 and 65-68: reader.read() rejects: one synthetic unit is yielded
ReadFails ==
    /\ dpc = "read"
    /\ yielded' = Append(yielded, Unit(ErrorText, NoSources))
    /\ dpc' = "failed"
    /\ UNCHANGED <<body, wire, decoderPending, decodeBuffer, pendingLines,
                   cuts, notDecVars>>

(***************************************************************************)
(* streamTextResponse as src/services/geminiService.ts lines 75-109 has    *)
(* it: the decoded text of every fragment is yielded as it is, and an       *)
(* error is logged and thrown again (lines 105-108).                        *)
(***************************************************************************)
\* the bodies streamed as raw text: at most one line and a tail
RawBodies == [ls : SeqsUpTo(LineKinds, 1), tail : TailKinds]

\* lines 81-91: the fetch rejects, or the status is not OK, or there is no
\* body: the error is thrown to the consumer
RawFetchFails ==
    /\ dpc = "fetch"
    /\ dpc' = "thrown"                                        \* line 107
    /\ UNCHANGED <<body, wire, decoderPending, decodeBuffer, pendingLines,
                   yielded, cuts, notDecVars>>

\* lines 97-100: reader.read() resolves with the next n bytes, which are
\* decoded and yielded
RawRead(n) ==
    /\ dpc = "read"
    /\ n \in 1..Len(wire)
    /\ LET d == Utf8Decode(decoderPending \o SubSeq(wire, 1, n))      \* line 100
       IN /\ decoderPending' = d.pending
          /\ yielded' = Append(yielded, d.text)
    /\ wire' = SubSeq(wire, n + 1, Len(wire))
    /\ dpc' = "yielded"
    /\ UNCHANGED <<body, decodeBuffer, pendingLines, cuts, notDecVars>>

\* the consumer asks for the next text: the loop of line 97 goes on
RawConsumerNext ==
    /\ dpc = "yielded"
    /\ dpc' = "read"
    /\ UNCHANGED <<body, wire, decoderPending, decodeBuffer, pendingLines,
                   yielded, cuts, notDecVars>>

\* lines 98-99: reader.read() resolves with done
RawReadDone ==
    /\ dpc = "read"
    /\ wire = <<>>
    /\ dpc' = "done"
    /\ UNCHANGED <<body, wire, decoderPending, decodeBuffer, pendingLines,
                   yielded, cuts, notDecVars>>

\* lines 98 and 102-108: reader.read() rejects: the lock is released and
\* the error is thrown to the consumer
RawReadFails ==
    /\ dpc = "read"
    /\ dpc' = "thrown"                                        \* line 107
    /\ UNCHANGED <<body, wire, decoderPending, decodeBuffer, pendingLines,
                   yielded, cuts, notDecVars>>

(***************************************************************************)
(* TalkInterface: the live session controller and the playback scheduler    *)
(* (src/unnamed/part_000 lines 163-304)                                     *)
(*                                                                         *)
(* Every handleStartLive invocation that passes the guard of line 208 has   *)
(* a number k; the microphone stream, the two audio contexts, the capture   *)
(* nodes and the network session it creates carry the same number.  A ref   *)
(* holds the number of the object it points to, NullRef for null.           *)
(*                                                                         *)
(* React commits a state update and runs the effect of lines 179-181        *)
(* (isLiveRef.current = isLive) before the next task is handled: Commit     *)
(* ends every action.  Within one action isLiveRef is not refreshed.        *)
(***************************************************************************)
Starts == 1..MaxStarts
NullRef == 0

TalkInitial ==
    [mounted |-> TRUE,
     isLive |-> FALSE,                       \* line 164
     liveStatus |-> "idle",                  \* line 165
     sessionPromiseRef |-> NullRef,          \* line 168
     streamRef |-> NullRef,                  \* line 169
     inputAudioContextRef |-> NullRef,       \* line 170
     outputAudioContextRef |-> NullRef,      \* line 171
     scriptProcessorRef |-> NullRef,         \* line 172
     mediaStreamSourceRef |-> NullRef,       \* line 173
     nextStartTimeRef |-> 0,                 \* line 174
     isLiveRef |-> FALSE,                    \* line 176
     starts |-> 0,                           \* invocations numbered so far
     \* the microphone request and stream of invocation k:
     \* none, pending, live, stopped, denied
     mic |-> [k \in Starts |-> "none"],
     \* the audio contexts of invocation k: none, running, closed
     inCtx |-> [k \in Starts |-> "none"],
     outCtx |-> [k \in Starts |-> "none"],
     \* the capture nodes made by the onopen of session k, and the stream
     \* and the context they read it in: none, connected, disconnected
     node |-> [k \in Starts |->
                 [state |-> "none", stream |-> NullRef, ctx |-> NullRef]],
     \* the microphone blocks whose send waits for the promise of session k
     \* (line 237): none, queued, sent
     blocks |-> [k \in Starts |-> "none"],
     \* the network session of invocation k: none, connecting (the promise
     \* of startLiveConversation is pending), open, closing (close() was
     \* called), errored, closed, rejected
     conn |-> [k \in Starts |-> "none"],
     \* handleStopLive chained session.close() on the pending promise of k
     closeOnResolve |-> [k \in Starts |-> FALSE],
     \* what the callbacks chained to the promise of session k (lines 192
     \* and 237) call on the session, in the order they run; a call that
     \* repeats the one before it is not written again
     calls |-> [k \in Starts |-> <<>>],
     \* an audio frame of session k has passed line 249
     heard |-> [k \in Starts |-> FALSE],
     \* the handler that ran last, when it is one that calls handleStopLive:
     \* stop, unmount, onerror, onerror+onclose, onclose, threw; denied for
     \* the catch block of lines 295-299; else other
     lastHandler |-> "other"]

\* setIsLive and setLiveStatus: ignored once the component is unmounted
SetState(t, live, status) ==
    IF t.mounted THEN [t EXCEPT !.isLive = live, !.liveStatus = status] ELSE t

SetStatus(t, status) ==
    IF t.mounted THEN [t EXCEPT !.liveStatus = status] ELSE t

\* lines 179-181: the effect that copies isLive into isLiveRef after a render
Commit(t) == IF t.mounted THEN [t EXCEPT !.isLiveRef = t.isLive] ELSE t

\* a callback chained later runs before the ones chained earlier
ChainBefore(calls, p, what) ==
    IF calls[p] # <<>> /\ Head(calls[p]) = what THEN calls
    ELSE [calls EXCEPT ![p] = <<what>> \o @]

\* lines 192 and 237: promise.then(callback): the callbacks of one promise
\* run in the order they were chained, at once when the promise has
\* resolved; on a rejected promise they never run
Chain(calls, p, what) ==
    IF calls[p] # <<>> /\ calls[p][Len(calls[p])] = what THEN calls
    ELSE [calls EXCEPT ![p] = Append(@, what)]

\* line 192: sessionPromiseRef.current?.then(session => session.close())
ChainedClose(t) ==
    IF t.sessionPromiseRef # NullRef /\ t.conn[t.sessionPromiseRef] # "rejected"
    THEN Chain(t.calls, t.sessionPromiseRef, "close")
    ELSE t.calls

\* line 192: session.close() once the promise of the session is resolved
CloseSession(conn, p) ==
    IF p # NullRef /\ conn[p] = "open" THEN [conn EXCEPT ![p] = "closing"]
    ELSE conn

\* line 192 on a pending promise: close() runs when it resolves
ChainClose(t) ==
    IF t.sessionPromiseRef # NullRef
          /\ t.conn[t.sessionPromiseRef] = "connecting"
    THEN [t.closeOnResolve EXCEPT ![t.sessionPromiseRef] = TRUE]
    ELSE t.closeOnResolve

\* lines 195-196: disconnect() on the nodes the two refs point to
DisconnectNodes(t) ==
    [k \in Starts |->
        IF k \in {t.scriptProcessorRef, t.mediaStreamSourceRef}
           /\ t.node[k].state = "connected"
        THEN [t.node[k] EXCEPT !.state = "disconnected"]
        ELSE t.node[k]]

\* lines 198-199: close() on the context a ref points to
CloseContext(ctx, ref) ==
    IF ref # NullRef THEN [ctx EXCEPT ![ref] = "closed"] ELSE ctx

\* lines 201-204: the refs handleStopLive sets to null
RefsAfterStop(t) ==
    [t EXCEPT !.sessionPromiseRef = NullRef,
              !.streamRef = NullRef,
              !.scriptProcessorRef = NullRef,
              !.mediaStreamSourceRef = NullRef]

\* lines 187-205: handleStopLive
HandleStopLive(t) ==
    IF ~t.isLiveRef THEN t                                       \* line 188
    ELSE LET u == SetState(t, FALSE, "ended")                    \* lines 189-190
             v == [u EXCEPT
                     !.conn = CloseSession(@, t.sessionPromiseRef),
                     !.closeOnResolve = ChainClose(t),
                     !.calls = ChainedClose(t),
                     !.mic = IF t.streamRef # NullRef            \* line 193
                             THEN [@ EXCEPT ![t.streamRef] = "stopped"]
                             ELSE @,
                     !.node = DisconnectNodes(t),
                     !.inCtx = CloseContext(@, t.inputAudioContextRef),
                     !.outCtx = CloseContext(@, t.outputAudioContextRef)]
         IN RefsAfterStop(v)

Ran(t, name) == [t EXCEPT !.lastHandler = name]

\* no suspended onmessage handler is waiting for its microtask: a new task
\* (a click, a network callback, a resolved request) can be handled
TaskBoundary == decoding = <<>>

\* lines 207-212: handleStartLive up to the await of getUserMedia.  The
\* handler reads the isLive of the last render.
StartClick ==
    /\ TaskBoundary
    /\ talk.mounted
    /\ ~talk.isLive                                              \* line 208
    /\ talk.starts < MaxStarts
    /\ talk' = Ran([talk EXCEPT !.starts = @ + 1,
                                !.mic[talk.starts + 1] = "pending"], "other")
    /\ UNCHANGED <<clock, decoding, sched, arrivals, notLiveVars>>

\* the first invocation of handleStartLive
FirstStart == talk.starts = 0 /\ StartClick

\* lines 213-294: getUserMedia resolves; the contexts are made and
\* startLiveConversation is called
MicGranted(k) ==
    /\ TaskBoundary
    /\ talk.mic[k] = "pending"
    /\ LET t == SetState(talk, TRUE, "connecting")               \* lines 214-215
       IN talk' = Ran(Commit([t EXCEPT
                     !.streamRef = k,                            \* line 213
                     !.mic[k] = "live",
                     !.inputAudioContextRef = k,                 \* line 217
                     !.inCtx[k] = "running",
                     !.outputAudioContextRef = k,                \* line 218
                     !.outCtx[k] = "running",
                     !.sessionPromiseRef = k,                    \* line 294
                     !.conn[k] = "connecting"]), "other")
    /\ clock' = 0
    /\ UNCHANGED <<decoding, sched, arrivals, notLiveVars>>

\* lines 295-299: getUserMedia rejects
MicDenied(k) ==
    /\ TaskBoundary
    /\ talk.mic[k] = "pending"
    /\ talk' = Ran(Commit([SetState(talk, FALSE, "denied")
                             EXCEPT !.mic[k] = "denied"]), "denied")
    /\ UNCHANGED <<clock, decoding, sched, arrivals, notLiveVars>>

\* startLiveConversation throws (lines 81-90) or connect fails before the
\* session opens: the promise stored in sessionPromiseRef rejects, and the
\* only handlers on it are the catch of line 192 and none at line 294
SetupFails(k) ==
    /\ TaskBoundary
    /\ talk.conn[k] = "connecting"
    /\ talk' = Ran([talk EXCEPT !.conn[k] = "rejected",
                                \* the sends waiting for the promise never run
                                !.blocks[k] = "none",
                                !.calls[k] = <<>>], "other")
    /\ UNCHANGED <<clock, decoding, sched, arrivals, notLiveVars>>

\* lines 224-244: callbacks.onopen of session k, after which the session
\* promise resolves and a chained close() runs
OnOpen(k) ==
    /\ TaskBoundary
    /\ talk.conn[k] = "connecting"
    /\ LET t == SetStatus(talk, "open")                          \* line 225
           wired ==
             IF t.inputAudioContextRef = NullRef \/ t.streamRef = NullRef
             THEN t                                              \* line 226
             ELSE [t EXCEPT
                     !.mediaStreamSourceRef = k,                 \* line 229
                     !.scriptProcessorRef = k,                   \* line 232
                     !.node[k] = [state |-> "connected",
                                  stream |-> t.streamRef,
                                  ctx |-> t.inputAudioContextRef]]
       IN talk' = Ran(Commit([wired EXCEPT
                     !.conn[k] = IF t.closeOnResolve[k] THEN "closing"
                                 ELSE "open",
                     \* the promise resolves: the sends waiting for it run,
                     \* before the close() that a later stop chained to it
                     !.blocks[k] = IF @ = "queued" THEN "sent" ELSE @]),
                      "other")
    /\ UNCHANGED <<clock, decoding, sched, arrivals, notLiveVars>>

\* the button while isLive (line 327): handleStopLive
StopClick ==
    /\ TaskBoundary
    /\ talk.mounted
    /\ talk.isLive
    /\ talk' = Ran(Commit(HandleStopLive(talk)), "stop")
    /\ UNCHANGED <<clock, decoding, sched, arrivals, notLiveVars>>

\* lines 302-304: the component unmounts; the cleanup calls handleStopLive
Unmount ==
    /\ TaskBoundary
    /\ talk.mounted
    /\ talk' = Ran([HandleStopLive(talk) EXCEPT !.mounted = FALSE],
                   "unmount")
    /\ UNCHANGED <<clock, decoding, sched, arrivals, notLiveVars>>

\* lines 283-287: callbacks.onerror of session k.  The transport reports
\* the close that follows an error either in the same turn, before React
\* commits (closeFollows: lines 288-290 run at once), or later.
OnError(k, closeFollows) ==
    /\ TaskBoundary
    /\ talk.conn[k] \in {"connecting", "open", "closing"}
    /\ LET t == HandleStopLive(SetStatus(talk, "error"))
       IN talk' =
            IF closeFollows
            THEN Ran(Commit([HandleStopLive(t) EXCEPT !.conn[k] = "closed"]),
                     "onerror+onclose")
            ELSE Ran(Commit([t EXCEPT !.conn[k] = "errored"]), "onerror")
    /\ UNCHANGED <<clock, decoding, sched, arrivals, notLiveVars>>

\* lines 288-290: callbacks.onclose of session k
\* lines 234-240: onaudioprocess of the capture node that the onopen of
\* session k connected: the node is fed while its stream is live and its
\* context runs.  The send is chained to the promise in sessionPromiseRef:
\* it runs at once when that promise has resolved, it waits when the
\* promise is pending, it never runs when the promise was rejected.
AudioProcess(k) ==
    /\ TaskBoundary
    /\ talk.node[k].state = "connected"
    /\ talk.mic[talk.node[k].stream] = "live"
    /\ talk.inCtx[talk.node[k].ctx] = "running"
    /\ LET p == talk.sessionPromiseRef
       IN IF ~talk.isLiveRef \/ p = NullRef                   \* lines 235, 237
          THEN talk' = Ran(talk, "other")
          ELSE IF talk.conn[p] = "connecting"
          THEN talk' = Ran([talk EXCEPT !.blocks[p] = "queued",
                                        !.calls = Chain(@, p, "send")],
                           "other")
          ELSE IF talk.conn[p] = "rejected"
          THEN talk' = Ran(talk, "other")
          ELSE talk' = Ran([talk EXCEPT !.calls = Chain(@, p, "send")],
                           "other")                           \* line 238
    /\ UNCHANGED <<clock, decoding, sched, arrivals, notLiveVars>>

OnClose(k) ==
    /\ TaskBoundary
    /\ talk.conn[k] \in {"open", "closing", "errored"}
    /\ talk' = Ran(Commit([HandleStopLive(talk) EXCEPT !.conn[k] = "closed"]),
                   "onclose")
    /\ UNCHANGED <<clock, decoding, sched, arrivals, notLiveVars>>

(***************************************************************************)
(* The playback scheduler, lines 245-258                                   *)
(***************************************************************************)
Max(a, b) == IF a >= b THEN a ELSE b

\* buffer durations, in clock ticks
Durations == {1, 2}

\* inbound messages: audio of some duration, audio whose data does not
\* decode, and a message without audio
Inbound ==
    { [kind |-> "audio", dur |-> d] : d \in Durations }
        \cup { [kind |-> "malformed", dur |-> 0], [kind |-> "other", dur |-> 0] }

\* line 248: outputAudioContextRef.current?.state === 'running'
OutputRunning(t) ==
    /\ t.outputAudioContextRef # NullRef
    /\ t.outCtx[t.outputAudioContextRef] = "running"

\* line 249: the cursor is raised to the clock
CursorAtArrival(cursor, now) == Max(cursor, now)

\* line 255: the time passed to sourceNode.start
StartTime(cursor, now) == cursor

\* the cursor is left where it was
CursorNotAdvanced(cursor, dur) == cursor

\* line 256: the cursor after a buffer of duration dur was scheduled
CursorAfter(cursor, dur) == cursor + dur

\* the last two elements of a sequence
LastTwo(q) == IF Len(q) <= 2 THEN q ELSE SubSeq(q, Len(q) - 1, Len(q))

\* every network session but k has ended or was never started, and the
\* output context is the one made with session k
OthersEnded(t, k) ==
    /\ t.outputAudioContextRef = k
    /\ \A j \in Starts \ {k} : t.conn[j] \in {"none", "closed", "rejected"}

\* lines 245-250 and 277-281: callbacks.onmessage of session k up to the
\* await of line 250, or through the catch block when decoding throws
OnMessage(k, m) ==
    /\ talk.conn[k] \in {"open", "closing"}
    /\ arrivals < MaxFrames
    /\ arrivals' = arrivals + 1
    /\ IF m.kind = "other" \/ ~OutputRunning(talk)
       THEN /\ talk' = Ran(talk, "other")
            /\ decoding' = decoding
       ELSE LET t == [talk EXCEPT !.nextStartTimeRef =
                                       CursorAtArrival(@, clock)]
            IN IF m.kind = "audio"
               THEN /\ talk' = Ran([t EXCEPT !.heard[k] = TRUE], "other")
                    /\ decoding' = Append(decoding,
                                     [dur |-> m.dur, seq |-> arrivals + 1,
                                      behind |-> Len(decoding),
                                      session |-> k,
                                      arrival |-> clock,
                                      due |-> t.nextStartTimeRef,
                                      first |-> ~talk.heard[k],
                                      alone |-> OthersEnded(talk, k)])
               ELSE /\ talk' = Ran(Commit(HandleStopLive(SetStatus(t, "error"))),
                                   "threw")
                    /\ decoding' = decoding
    /\ UNCHANGED <<clock, sched, notLiveVars>>

\* lines 251-257: the oldest suspended handler resumes after line 250 and
\* schedules its buffer
ResumeMessage ==
    /\ decoding # <<>>
    /\ LET h == Head(decoding)
           at == StartTime(talk.nextStartTimeRef, clock)
       IN /\ sched' = LastTwo(Append(sched,
                         [start |-> at, dur |-> h.dur, seq |-> h.seq,
                          clock |-> clock, behind |-> h.behind,
                          session |-> h.session, arrival |-> h.arrival,
                          due |-> h.due,
                          first |-> h.first, alone |-> h.alone]))
          /\ talk' = Ran([talk EXCEPT !.nextStartTimeRef =
                                         CursorAfter(at, h.dur)], "other")
    /\ decoding' = Tail(decoding)
    /\ UNCHANGED <<clock, arrivals, notLiveVars>>

\* the audio thread advances currentTime of the running output context
Tick ==
    /\ OutputRunning(talk)
    /\ clock < MaxClock
    /\ clock' = clock + 1
    /\ UNCHANGED <<talk, decoding, sched, arrivals, notLiveVars>>

(***************************************************************************)
(* The agent chat: handleSendMessage, src/unnamed/part_001 lines 77-106.   *)
(* An agent is selected and its configuration loaded (line 78), the        *)
(* message list was emptied by the selection (line 67).                    *)
(***************************************************************************)
\* lines 83 and 94: the message objects the handler builds
AgentMsg(text, role, sources) == [text |-> text, role |-> role, sources |-> sources]

\* what the input field may hold when Enter is pressed
AgentInputs == { <<"y", "o">>, <<" ", "y">>, <<" ">> }

\* what the backend may stream for one message
AgentResponses ==
    { << Unit(<<"o", "k">>, SomeSources(<<SourceA>>)),
         Unit(<<"x">>, SomeSources(<<SourceA, SourceB>>)) >>,
      << Unit(<<"o", "k">>, SomeSources(<<SourceA>>)),
         Unit(<<"x">>, NoSources) >>,
      << Unit(<<"o", "k">>, NoSources),
         Unit(<<>>, SomeSources(<<SourceA>>)) >>,
      << Unit(<<"o", "k">>, SomeSources(<<SourceA, SourceA2>>)) >>,
      << Unit(<<>>, SomeSources(<<SourceB>>)) >>,
      << >> }

AgentIdle == [pc |-> "idle", resp |-> <<>>, k |-> 0, fullResponse |-> <<>>, sent |-> 0]

\* lines 77-88: Enter is pressed; the input is enabled only while no
\* response is being streamed (line 284)
AgentSend(input, resp) ==
    /\ ~isTyping                                              \* line 284
    /\ hm.sent < MaxSends
    /\ Trim(input) # <<>>                                     \* lines 80-81
    /\ agentMessages' =
          Append(agentMessages, AgentMsg(Trim(input), "user", <<>>))   \* line 83
    /\ isTyping' = TRUE                                       \* line 86
    /\ hm' = [pc |-> "await", resp |-> resp, k |-> 0, fullResponse |-> <<>>,
              sent |-> hm.sent + 1]                           \* lines 88-89
    /\ UNCHANGED <<agentError, notAgentVars>>

\* lines 91-98: one unit of the stream
AgentChunk ==
    /\ hm.pc = "await"
    /\ hm.k < Len(hm.resp)
    /\ LET chunk == hm.resp[hm.k + 1]
           full == hm.fullResponse \o chunk.textChunk         \* line 93
       IN IF chunk.textChunk # <<>>                           \* line 92
          THEN /\ agentMessages' =
                     Append(SubSeq(agentMessages, 1, Len(agentMessages) - 1),
                            AgentMsg(full, "model", chunk.sources.list)) \* 94-97
               /\ hm' = [hm EXCEPT !.k = @ + 1, !.fullResponse = full]
          ELSE /\ agentMessages' = agentMessages
               /\ hm' = [hm EXCEPT !.k = @ + 1]
    /\ UNCHANGED <<isTyping, agentError, notAgentVars>>

\* lines 91 and 103-105: the stream ends
AgentStreamEnd ==
    /\ hm.pc = "await"
    /\ hm.k = Len(hm.resp)
    /\ hm' = [hm EXCEPT !.pc = "done"]
    /\ isTyping' = FALSE                                      \* line 104
    /\ UNCHANGED <<agentMessages, agentError, notAgentVars>>

\* lines 99-105: the stream throws
AgentStreamThrows ==
    /\ hm.pc = "await"
    /\ hm' = [hm EXCEPT !.pc = "failed"]
    /\ agentError' = TRUE                                     \* line 100
    /\ isTyping' = FALSE                                      \* line 104
    /\ UNCHANGED <<agentMessages, notAgentVars>>

(***************************************************************************)
(* getAiClient, src/unnamed/part_000 lines 6-22 (the same code is           *)
(* src/services/geminiService.ts lines 196-222).  A client is written as    *)
(* the number of its construction, NoClient is null.                        *)
(***************************************************************************)
Calls == 1..MaxCalls

NoClient == 0

IdleCall == [pc |-> "idle", ret |-> NoClient]

\* lines 8-12: the call returns the cached client, or sends the request
\* for the key and suspends
GetAiClient(c) ==
    /\ gc[c].pc = "idle"
    /\ \A d \in Calls : d < c => gc[d].pc # "idle"
    /\ gc' = [gc EXCEPT ![c] =
                IF ai # NoClient THEN [pc |-> "returned", ret |-> ai]  \* line 9
                ELSE [pc |-> "fetch", ret |-> NoClient]]               \* line 12
    /\ UNCHANGED <<ai, clientsMade, notAiVars>>

\* lines 12-14: the fetch resolves with an OK status; the body is read
KeyResponseOk(c) ==
    /\ gc[c].pc = "fetch"
    /\ gc' = [gc EXCEPT ![c].pc = "json"]
    /\ UNCHANGED <<ai, clientsMade, notAiVars>>

\* lines 14-17: the body holds a key: a client is constructed, stored and
\* returned
KeyReceived(c) ==
    /\ gc[c].pc = "json"
    /\ clientsMade' = clientsMade + 1
    /\ ai' = clientsMade + 1                                           \* line 16
    /\ gc' = [gc EXCEPT ![c] = [pc |-> "returned", ret |-> clientsMade + 1]]
    /\ UNCHANGED notAiVars

\* lines 12-15 and 18-21: the fetch rejects, the status is not OK, the body
\* is not JSON or holds no key: the error is logged and thrown
KeyFetchFails(c) ==
    /\ gc[c].pc \in {"fetch", "json"}
    /\ gc' = [gc EXCEPT ![c].pc = "threw"]
    /\ UNCHANGED <<ai, clientsMade, notAiVars>>

(***************************************************************************)
(* startLiveConversation.  "checked" is src/unnamed/part_000 lines 72-107   *)
(* (the same code is src/services/geminiService.ts lines 301-340), "plain"  *)
(* is src/services/geminiService.ts lines 131-169 with getLiveConfig,       *)
(* lines 116-128.  The invocation uses the first getAiClient call.          *)
(***************************************************************************)
Variants == {"checked", "plain"}

\* what GET /api/agents/{name}/live/config may answer: the JSON value null,
\* or an object in which systemInstruction and voiceName are truthy or not
LiveConfigs ==
    [isNull : {FALSE}, systemInstruction : BOOLEAN, voiceName : BOOLEAN]
        \cup {[isNull |-> TRUE, systemInstruction |-> FALSE, voiceName |-> FALSE]}

\* part_000 line 87: the test of the configuration
InvalidConfig(cfg) == cfg.isNull \/ ~cfg.systemInstruction \/ ~cfg.voiceName

IdleSetup ==
    [pc |-> "idle", variant |-> "checked",
     cfg |-> [isNull |-> TRUE, systemInstruction |-> FALSE, voiceName |-> FALSE],
     cfgpc |-> "none", connects |-> 0]

\* the body of getAiClient up to its first await, for the first call
FirstClientCall ==
    [gc EXCEPT ![1] = IF ai # NoClient THEN [pc |-> "returned", ret |-> ai]
                      ELSE [pc |-> "fetch", ret |-> NoClient]]

\* part_000 line 81: the call, up to the await of getAiClient
\* geminiService.ts lines 134-137: getLiveConfig sends its request (line
\* 118), getAiClient is called, and the call awaits both
StartLiveConversation(variant, cfg) ==
    /\ slc.pc = "idle"
    /\ gc[1].pc = "idle"
    /\ gc' = FirstClientCall
    /\ slc' = [pc |-> IF variant = "checked" THEN "client" ELSE "all",
               variant |-> variant, cfg |-> cfg,
               cfgpc |-> IF variant = "checked" THEN "none" ELSE "fetch",
               connects |-> 0]
    /\ UNCHANGED <<ai, clientsMade, notSetupVars>>

\* part_000 lines 81-84: getAiClient returned; the configuration is requested
ClientReturned ==
    /\ slc.pc = "client"
    /\ gc[1].pc = "returned"
    /\ slc' = [slc EXCEPT !.pc = "config", !.cfgpc = "fetch"]
    /\ UNCHANGED <<aiVars, notSetupVars>>

\* part_000 line 81: getAiClient threw
ClientThrew ==
    /\ slc.pc = "client"
    /\ gc[1].pc = "threw"
    /\ slc' = [slc EXCEPT !.pc = "threw"]
    /\ UNCHANGED <<aiVars, notSetupVars>>

\* part_000 lines 84-87, geminiService.ts lines 118-122: the configuration
\* request resolves with an OK status; the body is read
ConfigResponseOk ==
    /\ slc.cfgpc = "fetch"
    /\ slc' = [slc EXCEPT !.cfgpc = "json"]
    /\ UNCHANGED <<aiVars, notSetupVars>>

\* part_000 lines 84-87, geminiService.ts lines 118-126: the request
\* rejects, the status is not OK, or the body is not JSON
ConfigFails ==
    /\ slc.cfgpc \in {"fetch", "json"}
    /\ slc' = [slc EXCEPT !.cfgpc = "threw",
                          !.pc = IF slc.variant = "checked" THEN "threw" ELSE @]
    /\ UNCHANGED <<aiVars, notSetupVars>>

\* part_000 lines 87-106: the configuration was read; it is tested and
\* live.connect is called, the promise of which is returned
ConfigRead ==
    /\ slc.variant = "checked"
    /\ slc.cfgpc = "json"
    /\ slc' = IF InvalidConfig(slc.cfg)                                \* line 88
              THEN [slc EXCEPT !.cfgpc = "done", !.pc = "threw"]       \* line 89
              ELSE [slc EXCEPT !.cfgpc = "done", !.pc = "returned",
                               !.connects = @ + 1]                     \* line 93
    /\ UNCHANGED <<aiVars, notSetupVars>>

\* geminiService.ts lines 122-123: getLiveConfig returns what it read
PlainConfigRead ==
    /\ slc.variant = "plain"
    /\ slc.cfgpc = "json"
    /\ slc' = [slc EXCEPT !.cfgpc = "done"]
    /\ UNCHANGED <<aiVars, notSetupVars>>

\* geminiService.ts lines 134-165 and 166-169: one of the two promises
\* rejected: the error is logged and thrown
PlainAllRejected ==
    /\ slc.pc = "all"
    /\ slc.cfgpc = "threw" \/ gc[1].pc = "threw"
    /\ slc' = [slc EXCEPT !.pc = "threw"]
    /\ UNCHANGED <<aiVars, notSetupVars>>

\* geminiService.ts lines 134-163: both promises resolved: liveConnect is
\* called with the fields of the configuration (reading a field of null
\* throws), and the call awaits the session
PlainAllResolved ==
    /\ slc.pc = "all"
    /\ slc.cfgpc = "done"
    /\ gc[1].pc = "returned"
    /\ slc' = IF slc.cfg.isNull
              THEN [slc EXCEPT !.pc = "threw"]                         \* line 141
              ELSE [slc EXCEPT !.pc = "connecting", !.connects = @ + 1] \* line 140
    /\ UNCHANGED <<aiVars, notSetupVars>>

\* geminiService.ts lines 140 and 165: the session is established
PlainConnected ==
    /\ slc.pc = "connecting"
    /\ slc' = [slc EXCEPT !.pc = "returned"]
    /\ UNCHANGED <<aiVars, notSetupVars>>

\* geminiService.ts lines 140 and 166-169: liveConnect rejects
PlainConnectFails ==
    /\ slc.pc = "connecting"
    /\ slc' = [slc EXCEPT !.pc = "threw"]
    /\ UNCHANGED <<aiVars, notSetupVars>>

(***************************************************************************)
(* handleSend consuming streamTextResponse: the loop of ChatInterface.tsx   *)
(* line 80 asks the generator for a unit, the generator runs to its next    *)
(* yield, the loop body processes the unit, and only then is the generator  *)
(* asked again.                                                             *)
(***************************************************************************)
\* {"textChunk":"a[MSG_BREAK]b"}
BreakLine == <<"{", "a">> \o MsgBreak \o <<"b", "}">>

PipeBodies ==
    [ls : SeqsUpTo({BreakLine, <<"{", "a", "}">>}, 2),
     tail : {<<>>, <<"{", "b", "}">>}]

\* line 78: handleSend calls streamTextResponse and asks for the first unit
PipeFetchOk == hs[1].pc = "await" /\ FetchOk

PipeFetchFails == hs[1].pc = "await" /\ FetchFails

\* line 80: the generator yielded; the unit reaches the loop
PipeDeliver ==
    /\ hs[1].pc = "await"
    /\ Len(hs[1].resp) < Len(yielded)
    /\ hs' = [hs EXCEPT ![1].resp = Append(@, yielded[Len(@) + 1])]
    /\ UNCHANGED <<messages, isLoading, generationSessionIdRef, idClock,
                   notChatVars>>

\* line 80: the loop body is through with the unit and asks for the next
\* one: the generator resumes behind its yield
PipeResume ==
    /\ hs[1].pc = "await"
    /\ hs[1].k = Len(yielded)
    /\ ConsumerNext

\* line 80: the generator has returned and every unit was processed
PipeStreamEnd ==
    /\ dpc \in {"done", "failed"}
    /\ Len(hs[1].resp) = Len(yielded)
    /\ StreamEnd(1)

(***************************************************************************)
(* The live transcript: onmessage, src/unnamed/part_000 lines 261-276.      *)
(* The two accumulators are variables of handleStartLive (lines 220-221)    *)
(* that the updater of lines 268-273 reads when React runs it: at the       *)
(* call of setTranscriptions when no update is pending, at the next render  *)
(* otherwise.                                                               *)
(***************************************************************************)
\* serverContent.inputTranscription / outputTranscription: absent, or text
NoText == [present |-> FALSE, text |-> <<>>]
SomeText(t) == [present |-> TRUE, text |-> t]

TranscriptMessages ==
    [inputTranscription : {NoText, SomeText(<<"h", "i">>), SomeText(<<" ">>)},
     outputTranscription : {NoText, SomeText(<<"y", "o">>)},
     turnComplete : BOOLEAN]

LiveMsg(text, sender) == [text |-> text, sender |-> sender]

\* lines 268-273: the updater, run when the accumulators hold user and bot
FlushUpdater(prev, user, bot) ==
    LET withUser == IF Trim(user) # <<>>                               \* line 270
                    THEN Append(prev, LiveMsg(Trim(user), "user")) ELSE prev
    IN IF Trim(bot) # <<>>                                             \* line 271
       THEN Append(withUser, LiveMsg(Trim(bot), "bot")) ELSE withUser

TranscriptInitial ==
    [transcriptions |-> <<>>,            \* line 166
     currentUserTranscription |-> <<>>,  \* line 220
     currentBotTranscription |-> <<>>,   \* line 221
     pending |-> 0,                      \* updaters queued, not yet run
     received |-> 0,                     \* messages delivered so far
     \* the transcript as the turns were spoken: at every turnComplete, the
     \* text received since the turnComplete before it
     spoken |-> <<>>]

\* lines 261-276 for a message without audio.  eager: React runs the
\* updater inside setTranscriptions, which it may do only when no update
\* is queued
OnTranscript(m, eager) ==
    /\ tr.received < MaxInbound
    /\ eager => tr.pending = 0
    /\ LET user == IF m.inputTranscription.present                     \* 261-263
                   THEN tr.currentUserTranscription \o m.inputTranscription.text
                   ELSE tr.currentUserTranscription
           bot == IF m.outputTranscription.present                     \* 264-266
                  THEN tr.currentBotTranscription \o m.outputTranscription.text
                  ELSE tr.currentBotTranscription
       IN IF m.turnComplete                                            \* line 267
          THEN tr' = [tr EXCEPT
                 !.transcriptions =
                     IF eager THEN FlushUpdater(@, user, bot) ELSE @,
                 !.pending = IF eager THEN @ ELSE @ + 1,
                 !.currentUserTranscription = <<>>,                    \* line 274
                 !.currentBotTranscription = <<>>,                     \* line 275
                 !.received = @ + 1,
                 !.spoken = FlushUpdater(@, user, bot)]
          ELSE /\ eager
               /\ tr' = [tr EXCEPT !.currentUserTranscription = user,
                                   !.currentBotTranscription = bot,
                                   !.received = @ + 1]
    /\ UNCHANGED notTranscriptVars

RECURSIVE RunUpdaters(_, _, _, _)
RunUpdaters(n, prev, user, bot) ==
    IF n = 0 THEN prev
    ELSE RunUpdaters(n - 1, FlushUpdater(prev, user, bot), user, bot)

\* React renders: the queued updaters run, in order, and read the
\* accumulators as they are now
RenderTranscript ==
    /\ tr.pending > 0
    /\ tr' = [tr EXCEPT
                !.transcriptions =
                    RunUpdaters(tr.pending, @, tr.currentUserTranscription,
                                tr.currentBotTranscription),
                !.pending = 0]
    /\ UNCHANGED notTranscriptVars

(***************************************************************************)
(* createBlob and encode, src/unnamed/part_000 lines 115-134.  A sample is  *)
(* written as the integer q that stands for the number q / 65536, so that   *)
(* the product of line 128 is q / 2 (the scaling by a power of two is       *)
(* exact in floating point).                                                *)
(***************************************************************************)
SampleUnit == 65536                  \* the sample 1.0

\* the samples of a block: in [-1, 1] and outside
Samples ==
    { -2 * SampleUnit, -SampleUnit - 2, -SampleUnit - 1, -SampleUnit,
      -SampleUnit + 1, -3, -1, 0, 1, 2, 3, SampleUnit - 2, SampleUnit - 1,
      SampleUnit, SampleUnit + 1, SampleUnit + 2, 2 * SampleUnit }

\* line 128, the number stored: data[i] * 32768 truncated toward zero
Scaled(q) == IF q >= 0 THEN q \div 2 ELSE -((-q) \div 2)

\* line 128, the store into an Int16Array element: ToInt16, which reduces
\* the truncated number modulo 2^16 into -32768..32767
ToInt16(n) == ((n + 32768) % 65536) - 32768

\* line 131: new Uint8Array(int16.buffer), two bytes per element, the low
\* byte first
BytesOfInt16(v) == << (v % 65536) % 256, (v % 65536) \div 256 >>

Uint8View(int16) == Concat([i \in 1..Len(int16) |-> BytesOfInt16(int16[i])])

\* lines 115-122: btoa of the bytes: a sequence of base64 digits 0..63,
\* Base64Pad for '='
Base64Pad == 64

RECURSIVE Encode(_)
Encode(bytes) ==
    IF bytes = <<>> THEN <<>>
    ELSE IF Len(bytes) = 1
    THEN << bytes[1] \div 4, (bytes[1] % 4) * 16, Base64Pad, Base64Pad >>
    ELSE IF Len(bytes) = 2
    THEN << bytes[1] \div 4, (bytes[1] % 4) * 16 + bytes[2] \div 16,
            (bytes[2] % 16) * 4, Base64Pad >>
    ELSE << bytes[1] \div 4, (bytes[1] % 4) * 16 + bytes[2] \div 16,
            (bytes[2] % 16) * 4 + bytes[3] \div 64, bytes[3] % 64 >>
         \o Encode(SubSeq(bytes, 4, Len(bytes)))

IdleBlob == [pc |-> "idle", data |-> <<>>, int16 |-> <<>>, frame |-> <<>>]

\* lines 124-134
CreateBlob ==
    /\ blob.pc = "called"
    /\ LET int16 == [i \in 1..Len(blob.data) |-> ToInt16(Scaled(blob.data[i]))]
       IN blob' = [blob EXCEPT !.pc = "returned",
                               !.int16 = int16,
                               !.frame = Encode(Uint8View(int16))]
    /\ UNCHANGED notBlobVars

(***************************************************************************)
(* The specifications                                                      *)
(***************************************************************************)

\* one message is sent and its response streamed in every chunking
InitChat ==
    /\ messages = InitialMessages
    /\ isLoading = FALSE
    /\ generationSessionIdRef = 0
    /\ idClock = 0
    /\ hs = InitialHandlers
    /\ body = [ls |-> <<>>, tail |-> <<>>]
    /\ wire = <<>>
    /\ decoderPending = <<>>
    /\ decodeBuffer = <<>>
    /\ pendingLines = <<>>
    /\ yielded = <<>>
    /\ cuts = {}
    /\ dpc = "idle"
    /\ talk = TalkInitial
    /\ clock = 0
    /\ decoding = <<>>
    /\ sched = <<>>
    /\ arrivals = 0
    /\ agentMessages = <<>>
    /\ isTyping = FALSE
    /\ agentError = FALSE
    /\ hm = AgentIdle
    /\ ai = NoClient
    /\ gc = [c \in Calls |-> IdleCall]
    /\ clientsMade = 0
    /\ slc = IdleSetup
    /\ tr = TranscriptInitial
    /\ blob = IdleBlob
    /\ rc = IdleReact

NextChat ==
    \/ \E input \in Inputs, resp \in Responses : FirstSend(input, resp)
    \/ \E s \in Sessions : NextChunk(s)
    \/ \E s \in Sessions : WaitDone(s)
    \/ \E s \in Sessions : StreamEnd(s)
    \/ \E s \in Sessions : StreamThrows(s)

SpecChat == InitChat /\ [][NextChat]_vars

\* messages are sent while the responses to earlier ones still stream
NextChatConc ==
    \/ \E input \in Inputs, resp \in ConcResponses : Send(input, resp)
    \/ \E s \in Sessions : NextChunk(s)
    \/ \E s \in Sessions : WaitDone(s)
    \/ \E s \in Sessions : StreamEnd(s)
    \/ \E s \in Sessions : StreamThrows(s)

SpecChatConc == InitChat /\ [][NextChatConc]_vars

\* one response body is decoded, cut into fragments in every way
InitDecoder ==
    /\ messages = InitialMessages
    /\ isLoading = FALSE
    /\ generationSessionIdRef = 0
    /\ idClock = 0
    /\ hs = InitialHandlers
    /\ body \in Bodies
    /\ wire = BodyBytes(body)
    /\ decoderPending = <<>>
    /\ decodeBuffer = <<>>
    /\ pendingLines = <<>>
    /\ yielded = <<>>
    /\ cuts = {}
    /\ dpc = "fetch"
    /\ talk = TalkInitial
    /\ clock = 0
    /\ decoding = <<>>
    /\ sched = <<>>
    /\ arrivals = 0
    /\ agentMessages = <<>>
    /\ isTyping = FALSE
    /\ agentError = FALSE
    /\ hm = AgentIdle
    /\ ai = NoClient
    /\ gc = [c \in Calls |-> IdleCall]
    /\ clientsMade = 0
    /\ slc = IdleSetup
    /\ tr = TranscriptInitial
    /\ blob = IdleBlob
    /\ rc = IdleReact

NextDecoder ==
    \/ FetchOk
    \/ FetchFails
    \/ \E n \in 1..Len(wire) : ReadFragment(n)
    \/ ConsumerNext
    \/ ReadDone
    \/ ReadFails

SpecDecoder == InitDecoder /\ [][NextDecoder]_vars

InitRawStream ==
    /\ messages = InitialMessages
    /\ isLoading = FALSE
    /\ generationSessionIdRef = 0
    /\ idClock = 0
    /\ hs = InitialHandlers
    /\ body \in RawBodies
    /\ wire = BodyBytes(body)
    /\ decoderPending = <<>>
    /\ decodeBuffer = <<>>
    /\ pendingLines = <<>>
    /\ yielded = <<>>
    /\ cuts = {}
    /\ dpc = "fetch"
    /\ talk = TalkInitial
    /\ clock = 0
    /\ decoding = <<>>
    /\ sched = <<>>
    /\ arrivals = 0
    /\ agentMessages = <<>>
    /\ isTyping = FALSE
    /\ agentError = FALSE
    /\ hm = AgentIdle
    /\ ai = NoClient
    /\ gc = [c \in Calls |-> IdleCall]
    /\ clientsMade = 0
    /\ slc = IdleSetup
    /\ tr = TranscriptInitial
    /\ blob = IdleBlob
    /\ rc = IdleReact

\* one response body is streamed as raw text (geminiService.ts lines 75-109)
NextRawStream ==
    \/ FetchOk
    \/ RawFetchFails
    \/ \E n \in 1..Len(wire) : RawRead(n)
    \/ RawConsumerNext
    \/ RawReadDone
    \/ RawReadFails

SpecRawStream == InitRawStream /\ [][NextRawStream]_vars

\* live sessions are started, stopped and fed inbound messages
InitLive ==
    /\ messages = InitialMessages
    /\ isLoading = FALSE
    /\ generationSessionIdRef = 0
    /\ idClock = 0
    /\ hs = InitialHandlers
    /\ body = [ls |-> <<>>, tail |-> <<>>]
    /\ wire = <<>>
    /\ decoderPending = <<>>
    /\ decodeBuffer = <<>>
    /\ pendingLines = <<>>
    /\ yielded = <<>>
    /\ cuts = {}
    /\ dpc = "idle"
    /\ talk = TalkInitial
    /\ clock = 0
    /\ decoding = <<>>
    /\ sched = <<>>
    /\ arrivals = 0
    /\ agentMessages = <<>>
    /\ isTyping = FALSE
    /\ agentError = FALSE
    /\ hm = AgentIdle
    /\ ai = NoClient
    /\ gc = [c \in Calls |-> IdleCall]
    /\ clientsMade = 0
    /\ slc = IdleSetup
    /\ tr = TranscriptInitial
    /\ blob = IdleBlob
    /\ rc = IdleReact

NextLive ==
    \/ StartClick
    \/ \E k \in Starts : MicGranted(k)
    \/ \E k \in Starts : MicDenied(k)
    \/ \E k \in Starts : SetupFails(k)
    \/ \E k \in Starts : OnOpen(k)
    \/ \E k \in Starts : AudioProcess(k)
    \/ StopClick
    \/ Unmount
    \/ \E k \in Starts, closeFollows \in BOOLEAN : OnError(k, closeFollows)
    \/ \E k \in Starts : OnClose(k)
    \/ \E k \in Starts, m \in Inbound : OnMessage(k, m)
    \/ ResumeMessage
    \/ Tick

SpecLive == InitLive /\ [][NextLive]_vars

\* one live session is started and fed inbound messages while the output
\* clock runs
InitPlayback ==
    /\ messages = InitialMessages
    /\ isLoading = FALSE
    /\ generationSessionIdRef = 0
    /\ idClock = 0
    /\ hs = InitialHandlers
    /\ body = [ls |-> <<>>, tail |-> <<>>]
    /\ wire = <<>>
    /\ decoderPending = <<>>
    /\ decodeBuffer = <<>>
    /\ pendingLines = <<>>
    /\ yielded = <<>>
    /\ cuts = {}
    /\ dpc = "idle"
    /\ talk = TalkInitial
    /\ clock = 0
    /\ decoding = <<>>
    /\ sched = <<>>
    /\ arrivals = 0
    /\ agentMessages = <<>>
    /\ isTyping = FALSE
    /\ agentError = FALSE
    /\ hm = AgentIdle
    /\ ai = NoClient
    /\ gc = [c \in Calls |-> IdleCall]
    /\ clientsMade = 0
    /\ slc = IdleSetup
    /\ tr = TranscriptInitial
    /\ blob = IdleBlob
    /\ rc = IdleReact

NextPlayback ==
    \/ FirstStart
    \/ \E k \in Starts : MicGranted(k)
    \/ \E k \in Starts : MicDenied(k)
    \/ \E k \in Starts : SetupFails(k)
    \/ \E k \in Starts : OnOpen(k)
    \/ StopClick
    \/ Unmount
    \/ \E k \in Starts, closeFollows \in BOOLEAN : OnError(k, closeFollows)
    \/ \E k \in Starts : OnClose(k)
    \/ \E k \in Starts, m \in Inbound : OnMessage(k, m)
    \/ ResumeMessage
    \/ Tick

SpecPlayback == InitPlayback /\ [][NextPlayback]_vars

\* live sessions are started and stopped while the microphone is captured;
\* every microphone request is granted and no inbound message arrives
NextCapture ==
    \/ StartClick
    \/ \E k \in Starts : MicGranted(k)
    \/ \E k \in Starts : SetupFails(k)
    \/ \E k \in Starts : OnOpen(k)
    \/ \E k \in Starts : AudioProcess(k)
    \/ StopClick
    \/ Unmount
    \/ \E k \in Starts, closeFollows \in BOOLEAN : OnError(k, closeFollows)
    \/ \E k \in Starts : OnClose(k)

SpecCapture == InitLive /\ [][NextCapture]_vars

\* messages are sent to the selected agent, one after the other
NextAgentChat ==
    \/ \E input \in AgentInputs, resp \in AgentResponses : AgentSend(input, resp)
    \/ AgentChunk
    \/ AgentStreamEnd
    \/ AgentStreamThrows

SpecAgentChat == InitChat /\ [][NextAgentChat]_vars

\* getAiClient is called several times, the calls overlap in every way
NextAiClient ==
    \/ \E c \in Calls : GetAiClient(c)
    \/ \E c \in Calls : KeyResponseOk(c)
    \/ \E c \in Calls : KeyReceived(c)
    \/ \E c \in Calls : KeyFetchFails(c)

SpecAiClient == InitChat /\ [][NextAiClient]_vars

\* one message is sent and its response body decoded and interpreted
InitPipeline ==
    /\ messages = InitialMessages
    /\ isLoading = FALSE
    /\ generationSessionIdRef = 0
    /\ idClock = 0
    /\ hs = InitialHandlers
    /\ body \in PipeBodies
    /\ wire = BodyBytes(body)
    /\ decoderPending = <<>>
    /\ decodeBuffer = <<>>
    /\ pendingLines = <<>>
    /\ yielded = <<>>
    /\ cuts = {}
    /\ dpc = "fetch"
    /\ talk = TalkInitial
    /\ clock = 0
    /\ decoding = <<>>
    /\ sched = <<>>
    /\ arrivals = 0
    /\ agentMessages = <<>>
    /\ isTyping = FALSE
    /\ agentError = FALSE
    /\ hm = AgentIdle
    /\ ai = NoClient
    /\ gc = [c \in Calls |-> IdleCall]
    /\ clientsMade = 0
    /\ slc = IdleSetup
    /\ tr = TranscriptInitial
    /\ blob = IdleBlob
    /\ rc = IdleReact

NextPipeline ==
    \/ \E input \in Inputs : FirstSend(input, <<>>)
    \/ PipeFetchOk
    \/ PipeFetchFails
    \/ \E n \in 1..Len(wire) : ReadFragment(n)
    \/ ReadDone
    \/ ReadFails
    \/ PipeDeliver
    \/ NextChunk(1)
    \/ WaitDone(1)
    \/ PipeResume
    \/ PipeStreamEnd

SpecPipeline == InitPipeline /\ [][NextPipeline]_vars

\* transcription messages arrive on an open session
NextTranscript ==
    \/ \E m \in TranscriptMessages, eager \in BOOLEAN : OnTranscript(m, eager)
    \/ RenderTranscript

SpecTranscript == InitChat /\ [][NextTranscript]_vars

\* createBlob is applied to every block of samples
InitBlob ==
    /\ messages = InitialMessages
    /\ isLoading = FALSE
    /\ generationSessionIdRef = 0
    /\ idClock = 0
    /\ hs = InitialHandlers
    /\ body = [ls |-> <<>>, tail |-> <<>>]
    /\ wire = <<>>
    /\ decoderPending = <<>>
    /\ decodeBuffer = <<>>
    /\ pendingLines = <<>>
    /\ yielded = <<>>
    /\ cuts = {}
    /\ dpc = "idle"
    /\ talk = TalkInitial
    /\ clock = 0
    /\ decoding = <<>>
    /\ sched = <<>>
    /\ arrivals = 0
    /\ agentMessages = <<>>
    /\ isTyping = FALSE
    /\ agentError = FALSE
    /\ hm = AgentIdle
    /\ ai = NoClient
    /\ gc = [c \in Calls |-> IdleCall]
    /\ clientsMade = 0
    /\ slc = IdleSetup
    /\ tr = TranscriptInitial
    /\ blob \in [pc : {"called"}, data : SeqsUpTo(Samples, MaxSamples),
               int16 : {<<>>}, frame : {<<>>}]
    /\ rc = IdleReact

NextBlob ==
    \/ CreateBlob

SpecBlob == InitBlob /\ [][NextBlob]_vars

\* the [REACT:x] updater is applied to every message list
InitReact ==
    /\ rc \in [pc : {"called"}, emoji : Glyphs, prev : ReactInputs]
    /\ messages = rc.prev
    /\ isLoading = FALSE
    /\ generationSessionIdRef = 0
    /\ idClock = 0
    /\ hs = InitialHandlers
    /\ body = [ls |-> <<>>, tail |-> <<>>]
    /\ wire = <<>>
    /\ decoderPending = <<>>
    /\ decodeBuffer = <<>>
    /\ pendingLines = <<>>
    /\ yielded = <<>>
    /\ cuts = {}
    /\ dpc = "idle"
    /\ talk = TalkInitial
    /\ clock = 0
    /\ decoding = <<>>
    /\ sched = <<>>
    /\ arrivals = 0
    /\ agentMessages = <<>>
    /\ isTyping = FALSE
    /\ agentError = FALSE
    /\ hm = AgentIdle
    /\ ai = NoClient
    /\ gc = [c \in Calls |-> IdleCall]
    /\ clientsMade = 0
    /\ slc = IdleSetup
    /\ tr = TranscriptInitial
    /\ blob = IdleBlob

NextReact ==
    \/ CallReactUpdater

SpecReact == InitReact /\ [][NextReact]_vars

\* startLiveConversation is called once, with every configuration
NextLiveSetup ==
    \/ \E variant \in Variants, cfg \in LiveConfigs :
          StartLiveConversation(variant, cfg)
    \/ KeyResponseOk(1)
    \/ KeyReceived(1)
    \/ KeyFetchFails(1)
    \/ ClientReturned
    \/ ClientThrew
    \/ ConfigResponseOk
    \/ ConfigFails
    \/ ConfigRead
    \/ PlainConfigRead
    \/ PlainAllRejected
    \/ PlainAllResolved
    \/ PlainConnected
    \/ PlainConnectFails

SpecLiveSetup == InitChat /\ [][NextLiveSetup]_vars

(***************************************************************************)
(* What the claims about one streamed response compare against             *)
(***************************************************************************)

\* a message without its id
View(m) == [text |-> m.text, sender |-> m.sender,
            sources |-> m.sources, reaction |-> m.reaction]

Views(msgs) == [i \in 1..Len(msgs) |-> View(msgs[i])]

IsBot(m) == m.sender = "bot"
IsUser(m) == m.sender = "user"

\* the texts of the bot bubbles that follow the last user message
ResponseBubbles(msgs) ==
    LET u == LastUserMessageIndex(msgs)
        after == SubSeq(msgs, u + 1, Len(msgs))
    IN [i \in 1..Len(after) |-> after[i].text]

\* the loop of lines 93-131 run through its pauses to the end of the buffer
RECURSIVE ScanToEnd(_, _, _, _, _)
ScanToEnd(msgs, cur, idc, buffer, from) ==
    LET r == ScanCommands(msgs, cur, idc, buffer, from)
    IN IF r.paused THEN ScanToEnd(r.msgs, r.cur, r.idc, buffer, r.lastIndex)
       ELSE r

\* the message list after input was sent and the whole response text arrived
\* as one chunk
OneChunkResult(input, text) ==
    LET start == Append(InitialMessages, Msg(1, input, "user", <<>>, <<>>))
        r == ScanToEnd(start, NullId, 1, text, 0)
        t == AfterCommands(r.msgs, r.cur, r.idc, text, r.lastIndex, NoSources)
    IN FinalCleanup(t.msgs)

TextOnly(resp) == \A i \in 1..Len(resp) : ~resp[i].sources.present

\* the code units the directives of the modelled responses are written in;
\* the prose of the modelled responses uses none of them
DirectiveUnits ==
    {"[", "]", ":", "_", "R", "E", "A", "C", "T", "M", "S", "G", "B", "K",
     "eH", "eL"}

(***************************************************************************)
(* C1: directive interpretation is chunk-boundary-invariant: a response     *)
(* text fed to the interpreter in any chunking ends in the same message     *)
(* list as the text fed as one chunk; for "hi [REACT:e] there" that list    *)
(* is the greeting, the user message carrying the reaction, and one bot     *)
(* bubble holding the prose "hi " then " there".                            *)
(***************************************************************************)
C1_ChunkBoundaryInvariant ==
    (hs[1].pc = "done" /\ TextOnly(hs[1].resp)) =>
        /\ Views(messages) =
              Views(OneChunkResult(messages[2].text, ResponseText(hs[1].resp)))
        /\ ResponseText(hs[1].resp) = ReactText =>
              /\ messages[2].reaction = Emoji
              /\ ResponseBubbles(messages) =
                    << <<"h", "i", " ">> \o <<" ", "t", "h", "e", "r", "e">> >>

(***************************************************************************)
(* C2: end-to-end scenario: after the units "Hey!" and                      *)
(* " [MSG_BREAK]How are you?" the response is exactly two new bot bubbles,  *)
(* "Hey!" and "How are you?", and no user message carries a reaction.       *)
(***************************************************************************)
C2_ScenarioTwoBubbles ==
    (hs[1].pc = "done" /\ hs[1].resp = ScenarioUnits) =>
        /\ ResponseBubbles(messages) = <<HeyText, HowText>>
        /\ \A i \in 1..Len(messages) :
              IsUser(messages[i]) => messages[i].reaction = <<>>

(***************************************************************************)
(* C5: a prefix of a directive is never emitted as prose: in no state does  *)
(* a bot bubble hold a code unit of a directive (every directive of the     *)
(* modelled responses is completed by a later chunk at the latest).         *)
(***************************************************************************)
C5_NoDirectivePrefixInProse ==
    \A i \in 1..Len(messages) :
        IsBot(messages[i]) =>
            \A j \in 1..Len(messages[i].text) :
                messages[i].text[j] \notin DirectiveUnits

(***************************************************************************)
(* What the claims about the decoder compare against                       *)
(***************************************************************************)

\* the units the lines of a body stand for, in the order they were written
UnitsOfLines(ls) ==
    LET units == SelectSeq(ls, IsUnitLine)
    IN [i \in 1..Len(units) |-> UnitOfLine(units[i])]

\* the unit a tail stands for when it is a complete JSON text
UnitsOfTail(tail) ==
    IF tail = <<"{", "b", "}">> THEN <<Unit(<<"b">>, NoSources)>> ELSE <<>>

UnitsOfBody(b) == UnitsOfLines(b.ls) \o UnitsOfTail(b.tail)

IsPrefix(p, q) == Len(p) <= Len(q) /\ p = SubSeq(q, 1, Len(p))

OnlyUnitLines(b) == \A i \in 1..Len(b.ls) : IsUnitLine(b.ls[i])

\* a fragment ended inside a line and one inside a character
CutEverywhere == cuts = {"line", "char"}

(***************************************************************************)
(* C3: for a body of N complete newline-terminated JSON units followed by   *)
(* a tail, cut into fragments in any way, the decoder yields the N units    *)
(* in arrival order and nothing else before the stream ends; at the end a   *)
(* tail that parses is yielded as unit N+1, a tail that does not parse or   *)
(* is blank is dropped, and an empty body yields no unit.                   *)
(***************************************************************************)
C3_YieldsExactlyTheUnits ==
    (OnlyUnitLines(body) /\ dpc # "failed") =>
        /\ IsPrefix(yielded, UnitsOfBody(body))
        /\ dpc # "done" => IsPrefix(yielded, UnitsOfLines(body.ls))
        /\ dpc = "done" => yielded = UnitsOfBody(body)
        /\ (dpc = "done" /\ BodyBytes(body) = <<>>) => yielded = <<>>

C3_Witness ==
    /\ dpc = "done"
    /\ body = [ls |-> << <<"{", "a", "}">>, <<"{", "c3", "a9", "}">> >>,
               tail |-> <<"{", "b", "}">>]
    /\ CutEverywhere
    /\ Len(yielded) = 3

(***************************************************************************)
(* C4: a line that fails to parse as JSON never halts decoding: the         *)
(* decoder yields every valid unit before and after it, in order; for the   *)
(* lines {"textChunk":"a"}, NOTJSON, {"textChunk":"b"} it yields exactly    *)
(* two units, "a" then "b".                                                 *)
(***************************************************************************)
C4_BadLineSkipped ==
    (dpc = "done" /\ ~OnlyUnitLines(body)) =>
        /\ yielded = UnitsOfBody(body)
        /\ body.ls = << <<"{", "a", "}">>, <<"N", "O", "T">>,
                        <<" ", "{", "b", "}", "\r">> >> /\ body.tail = <<>>
              => yielded = <<Unit(<<"a">>, NoSources), Unit(<<"b">>, NoSources)>>

C4_Witness ==
    /\ dpc = "done"
    /\ body = [ls |-> << <<"{", "a", "}">>, <<"N", "O", "T">>,
                         <<" ", "{", "b", "}", "\r">> >>,
               tail |-> <<>>]
    /\ "line" \in cuts
    /\ Len(yielded) = 2

(***************************************************************************)
(* What the claims about the live session compare against                  *)
(***************************************************************************)

HandlersThatStop ==
    {"stop", "unmount", "onerror", "onerror+onclose", "onclose", "threw"}

FailureHandlers == {"onerror", "onerror+onclose", "onclose", "threw"}

AllHandlesNull(t) ==
    /\ t.sessionPromiseRef = NullRef
    /\ t.streamRef = NullRef
    /\ t.inputAudioContextRef = NullRef
    /\ t.outputAudioContextRef = NullRef
    /\ t.scriptProcessorRef = NullRef
    /\ t.mediaStreamSourceRef = NullRef

\* the invocations that hold a live microphone stream
LiveMics(t) == { k \in Starts : t.mic[k] = "live" }

\* the network sessions that are being opened or are open, and are not
\* asked to close
LiveSessions(t) ==
    { k \in Starts : \/ t.conn[k] = "open"
                     \/ t.conn[k] = "connecting" /\ ~t.closeOnResolve[k] }

\* nothing of a live session is left
Released(t) ==
    /\ ~t.isLive
    /\ LiveMics(t) = {}
    /\ LiveSessions(t) = {}
    /\ \A k \in Starts : /\ t.node[k].state # "connected"
                         /\ t.inCtx[k] # "running"
                         /\ t.outCtx[k] # "running"

\* no microphone request is pending and no network session can still
\* call back
Settled(t) ==
    \A k \in Starts : /\ t.mic[k] # "pending"
                      /\ t.conn[k] \in {"none", "closed", "rejected"}

\* no resource of a live session is held
ResourcesReleased(t) ==
    /\ LiveMics(t) = {}
    /\ LiveSessions(t) = {}
    /\ \A k \in Starts : /\ t.node[k].state # "connected"
                         /\ t.inCtx[k] # "running"
                         /\ t.outCtx[k] # "running"

(***************************************************************************)
(* C6: playback is sequential and non-overlapping: of two buffers           *)
(* scheduled one after the other, the later one belongs to the frame that   *)
(* arrived later and starts no earlier than the start of the earlier one    *)
(* plus its duration, however the onmessage handlers interleave.            *)
(***************************************************************************)
C6_PlaybackSequential ==
    Len(sched) = 2 =>
        /\ sched[2].seq > sched[1].seq
        /\ sched[2].start >= sched[1].start + sched[1].dur

\* the second handler began while the first was suspended at its await
C6_Witness ==
    /\ Len(sched) = 2
    /\ sched[2].behind > 0
    /\ sched[1].dur = 2

(***************************************************************************)
(* C7: no buffer is scheduled to start before the current time of the       *)
(* output clock: when start is called, the time passed to it is at least    *)
(* the clock of that moment.                                                *)
(***************************************************************************)
C7_StartNotBeforeClock ==
    \A i \in 1..Len(sched) : sched[i].start >= sched[i].clock

(***************************************************************************)
(* C8: teardown is idempotent and total: after handleStopLive was called,   *)
(* with no session ever started, once after a start or twice in             *)
(* succession, every resource handle is null: the session promise, the      *)
(* microphone stream, both audio contexts and both capture nodes.           *)
(***************************************************************************)
C8_TeardownLeavesAllHandlesNull ==
    talk.lastHandler \in HandlersThatStop => AllHandlesNull(talk)

(***************************************************************************)
(* C9: at most one live session exists at any time: no second microphone    *)
(* stream is held and no second network session is opened while one is      *)
(* connecting or open.                                                      *)
(***************************************************************************)
C9_AtMostOneLiveSession ==
    /\ Cardinality(LiveMics(talk)) <= 1
    /\ Cardinality(LiveSessions(talk)) <= 1

(***************************************************************************)
(* C10: after onerror or onclose of the network session, or an exception    *)
(* while an inbound message is handled, the live session is idle and        *)
(* nothing is left half-open: isLive is false, the microphone tracks are    *)
(* stopped, the capture nodes disconnected, both audio contexts closed and  *)
(* the network session closed.                                              *)
(***************************************************************************)
C10_FailureReleasesEverything ==
    (talk.mounted /\ talk.lastHandler \in FailureHandlers) => Released(talk)

(***************************************************************************)
(* C11: teardown happens on every exit path, unmount included: whatever     *)
(* the live session was doing when the component unmounted (microphone      *)
(* request pending, connecting, open), once no request and no network       *)
(* session is pending any more, no microphone track is live, no audio       *)
(* context is open, no capture node is connected and no session is open.    *)
(***************************************************************************)
C11_UnmountReleasesEverything ==
    (~talk.mounted /\ Settled(talk)) => ResourcesReleased(talk)

(***************************************************************************)
(* C12: cooperative cancellation by the session counter: the counter only   *)
(* increases; once it has passed the id an in-flight handleSend captured,   *)
(* that invocation takes no further unit of its stream (at most the unit    *)
(* it was processing is still applied), and when it notices it is stale it  *)
(* adds nothing to the message list.                                        *)
(***************************************************************************)
C12_CooperativeCancellation ==
    [][ /\ generationSessionIdRef' >= generationSessionIdRef
        /\ \A s \in Sessions :
              generationSessionIdRef > s =>
                 /\ hs'[s].k = hs[s].k
                 /\ (hs[s].pc = "await" /\ hs'[s].pc = "cancelled") =>
                        messages' = StaleFilter(messages, hs[s].cur) ]_vars

\* a superseded stream was cut short after a unit it had applied
C12_Witness ==
    /\ generationSessionIdRef = 2
    /\ hs[1].pc = "cancelled"
    /\ hs[1].k >= 1
    /\ hs[1].k < Len(hs[1].resp)

(***************************************************************************)
(* C13: [MSG_BREAK] always closes the current bubble: the prose that        *)
(* follows a [MSG_BREAK] in the response goes to a bubble created after     *)
(* the directive and is never appended to the bubble that was open before   *)
(* it.  For "[REACT:e]a[MSG_BREAK]c": the first bubble never holds "c",     *)
(* and when the stream has ended there are two bubbles, "c" in the second.  *)
(***************************************************************************)
C13_BreakClosesBubble ==
    ResponseText(hs[1].resp) = BreakText =>
        LET b == ResponseBubbles(messages)
        IN /\ Len(b) >= 1 => \A j \in 1..Len(b[1]) : b[1][j] # "c"
           /\ hs[1].pc = "done" =>
                 /\ Len(b) = 2
                 /\ \E j \in 1..Len(b[2]) : b[2][j] = "c"

(***************************************************************************)
(* What the claims about bubbles and sources compare against               *)
(***************************************************************************)

NoBreak(resp) ==
    LET t == ResponseText(resp)
    IN \A i \in 1..Len(t) : ~OccursAt(t, i, MsgBreak)

\* the text with its complete directives taken out
RECURSIVE ProseOf(_)
ProseOf(t) ==
    IF t = <<>> THEN <<>>
    ELSE IF MatchesAt(t, 1) THEN ProseOf(SubSeq(t, MatchEndAt(t, 1) + 1, Len(t)))
    ELSE <<Head(t)>> \o ProseOf(Tail(t))

HasSources(resp) ==
    \E i \in 1..Len(resp) : resp[i].sources.present /\ resp[i].sources.list # <<>>

HasContent(resp) == NonBlank(ProseOf(ResponseText(resp))) \/ HasSources(resp)

Uris(list) == { list[i].uri : i \in 1..Len(list) }

\* the message list after a chunk's sources were applied in the state of
\* invocation s, and after the same sources were applied once more
SourcesOnce(s, inc) ==
    ApplySources(messages, hs[s].cur, idClock, SomeSources(inc))

SourcesTwice(s, inc) ==
    LET once == SourcesOnce(s, inc)
    IN ApplySources(once.msgs, once.cur, once.idc, SomeSources(inc))

(***************************************************************************)
(* C15: source merge is idempotent: in every state of a stream, applying    *)
(* the same incoming source list to the current bot message twice leaves    *)
(* the message list as applying it once does.                               *)
(***************************************************************************)
C15_MergeIdempotent ==
    hs[1].pc = "await" =>
        \A inc \in SourceLists : SourcesTwice(1, inc).msgs = SourcesOnce(1, inc).msgs

\* the open bubble already holds sources when a list is merged into it
C15_Witness ==
    /\ hs[1].pc = "await"
    /\ hs[1].cur # NullId
    /\ \E i \in 1..Len(messages) :
          /\ messages[i].id = hs[1].cur
          /\ messages[i].sources = <<SourceA, SourceB>>
          /\ SourcesOnce(1, <<SourceB, SourceA>>).msgs = messages

(***************************************************************************)
(* C16: in every reachable state no message's source list holds two         *)
(* entries with the same uri, whatever lists the units carry (a unit whose  *)
(* own list repeats a uri, sources that open a new bubble).                 *)
(***************************************************************************)
C16_UrisUnique ==
    \A i \in 1..Len(messages) :
        \A p, q \in 1..Len(messages[i].sources) :
            messages[i].sources[p].uri = messages[i].sources[q].uri => p = q

\* the source list grew: the old entries are kept in place and every entry
\* behind them has a uri the old list did not hold
GrewFrom(old, new) ==
    /\ IsPrefix(old, new)
    /\ \A p \in (Len(old) + 1)..Len(new) : new[p].uri \notin Uris(old)

(***************************************************************************)
(* C17: merging incoming sources into a bot message appends only the        *)
(* sources whose uri is not yet present, in incoming order, and leaves the  *)
(* existing entries unchanged: in every step of a stream the source list    *)
(* of the bot message being written only grows, in the chat view            *)
(* (ChatInterface.tsx) and in the agent chat (part_001).                    *)
(***************************************************************************)
C17_SourcesOnlyGrow ==
    [][ /\ \A i \in 1..Len(messages) : \A j \in 1..Len(messages') :
              messages[i].id = messages'[j].id =>
                  GrewFrom(messages[i].sources, messages'[j].sources)
        /\ \A i \in 1..Len(agentMessages) :
              (i <= Len(agentMessages') /\ agentMessages[i].role = "model"
                 /\ agentMessages'[i].role = "model" /\ hm'.sent = hm.sent) =>
                  GrewFrom(agentMessages[i].sources, agentMessages'[i].sources)
      ]_vars

\* the synthetic units among the first n units handed to the consumer
ErrorUnitsIn(ys) == { i \in 1..Len(ys) : ys[i] = Unit(ErrorText, NoSources) }

(***************************************************************************)
(* C18: a network-level failure of the chat stream (a rejected fetch, a     *)
(* non-OK status, a missing body, a read error) never throws past the       *)
(* consumer: the stream ends after exactly one synthetic unit, the last     *)
(* one it yields.                                                           *)
(***************************************************************************)
C18_FailureYieldsOneUnit ==
    /\ dpc # "thrown"
    /\ dpc = "failed" =>
          /\ yielded # <<>>
          /\ ErrorUnitsIn(yielded) = {Len(yielded)}

(***************************************************************************)
(* C19: when microphone permission is denied, handleStartLive aborts the    *)
(* start: right after its catch block the controller, while mounted, is    *)
(* Idle (isLive false) with the permission-denied status, and in any case  *)
(* no audio context exists, no network session is open or being opened,     *)
(* and no microphone stream is held.                                        *)
(***************************************************************************)
C19_DeniedStartLeavesIdle ==
    talk.lastHandler = "denied" =>
        /\ talk.mounted => ~talk.isLive /\ talk.liveStatus = "denied"
        /\ LiveMics(talk) = {}
        /\ LiveSessions(talk) = {}
        /\ \A k \in Starts : talk.inCtx[k] # "running" /\ talk.outCtx[k] # "running"

(***************************************************************************)
(* C20: a microphone block captured while the session promise has not       *)
(* resolved is dropped, not queued: no block captured before a session      *)
(* opened is transmitted when its promise resolves.                         *)
(***************************************************************************)
C20_PendingBlockDropped ==
    \A k \in Starts : talk.blocks[k] # "sent"

(***************************************************************************)
(* C21: the API key is fetched at most once and the client is cached: for   *)
(* any interleaving of getAiClient calls at most one client is constructed  *)
(* and all calls that return, return the same client.                       *)
(***************************************************************************)
C21_KeyFetchedOnce ==
    /\ clientsMade <= 1
    /\ \A c, d \in Calls :
          (gc[c].pc = "returned" /\ gc[d].pc = "returned") => gc[c].ret = gc[d].ret

(***************************************************************************)
(* C22: a live configuration without systemInstruction or voiceName is a    *)
(* fatal configuration error: startLiveConversation makes no connect call   *)
(* and does not return a session; once the configuration was read the call  *)
(* has failed.                                                              *)
(***************************************************************************)
C22_InvalidConfigNeverConnects ==
    (slc.pc # "idle" /\ InvalidConfig(slc.cfg)) =>
        /\ slc.connects = 0
        /\ slc.pc \notin {"connecting", "returned"}

(***************************************************************************)
(* C23: if establishing the live session fails after the microphone was     *)
(* acquired (the promise of startLiveConversation rejects), the controller  *)
(* goes to Idle without a user action: once the promise of a start has      *)
(* rejected and no microphone request or session is outstanding, isLive is  *)
(* false and the microphone stream and both audio contexts are released.    *)
(***************************************************************************)
C23_SetupFailureReleases ==
    (Settled(talk) /\ decoding = <<>> /\ \E k \in Starts : talk.conn[k] = "rejected")
        => (talk.mounted => ~talk.isLive) /\ ResourcesReleased(talk)

(***************************************************************************)
(* C24: [REACT:x] assigns the glyph x to the most recent user message when  *)
(* that message has no reaction; it changes nothing when there is no user   *)
(* message or when the most recent one has a reaction; no other message is  *)
(* modified and no reaction is overwritten.                                 *)
(***************************************************************************)
C24_ReactOnlyLastUserMessage ==
    rc.pc = "returned" =>
        LET users == { i \in 1..Len(rc.prev) : rc.prev[i].sender = "user" }
        IN /\ Len(messages) = Len(rc.prev)
           /\ \A j \in 1..Len(rc.prev) :
                 IF /\ j \in users
                    /\ \A i \in users : i <= j
                    /\ rc.prev[j].reaction = <<>>
                 THEN messages[j] = [rc.prev[j] EXCEPT !.reaction = rc.emoji]
                 ELSE messages[j] = rc.prev[j]

\* the glyph was assigned to the last user message, behind which a bot
\* message stands and before which a user message without reaction stands
C24_Witness ==
    /\ rc.pc = "returned"
    /\ Len(rc.prev) = 3
    /\ rc.prev[1].sender = "user" /\ rc.prev[1].reaction = <<>>
    /\ rc.prev[2].sender = "user" /\ rc.prev[2].reaction = <<>>
    /\ rc.prev[3].sender = "bot"
    /\ messages[2].reaction = Emoji
    /\ messages[1].reaction = <<>>

(***************************************************************************)
(* C25: the pause behind [MSG_BREAK] delays only the application of text:   *)
(* while the interpreter is paused the read loop of the decoder is not      *)
(* blocked (with bytes outstanding, a read can complete and be buffered),   *)
(* and while it is paused no text is applied to any bubble.                 *)
(***************************************************************************)
C25_PauseDelaysOnlyApplication ==
    [][ /\ (hs[1].pc = "wait" /\ wire # <<>>) =>
               ENABLED (\E n \in 1..Len(wire) : ReadFragment(n))
        /\ (hs[1].pc = "wait" /\ hs'[1].pc = "wait") => messages' = messages
      ]_vars

\* a message that is never to be deleted: its text is not blank or it
\* has a source
HasContentMsg(m) == NonBlank(m.text) \/ m.sources # <<>>

(***************************************************************************)
(* C26: messages are never deleted: no step (send, a streamed unit, the     *)
(* cancellation of a superseded stream, the cleanup at the end of a         *)
(* stream) removes a message with non-blank text or at least one source,    *)
(* in the chat view (ChatInterface.tsx) and in the agent chat (part_001,    *)
(* where a message is known by its place and role).                         *)
(***************************************************************************)
C26_MessagesNeverDeleted ==
    [][ /\ \A i \in 1..Len(messages) :
              HasContentMsg(messages[i]) =>
                  \E j \in 1..Len(messages') : messages'[j].id = messages[i].id
        /\ \A i \in 1..Len(agentMessages) :
              HasContentMsg(agentMessages[i]) =>
                  /\ i <= Len(agentMessages')
                  /\ agentMessages'[i].role = agentMessages[i].role
      ]_vars

(***************************************************************************)
(* C27: when a stream that was not superseded ends, normally or with an     *)
(* error, the message list holds no bubble with blank text and no sources,  *)
(* and every message with non-blank text or a source is kept, with its      *)
(* sources.                                                                 *)
(***************************************************************************)
C27_NoEmptyBubbleAtStreamEnd ==
    [][ \A s \in Sessions :
          (/\ hs[s].pc = "await"
           /\ hs'[s].pc \in {"done", "failed"}
           /\ generationSessionIdRef = s) =>
              /\ \A j \in 1..Len(messages') : HasContentMsg(messages'[j])
              /\ \A i \in 1..Len(messages) :
                    HasContentMsg(messages[i]) =>
                        \E j \in 1..Len(messages') :
                            /\ messages'[j].id = messages[i].id
                            /\ messages'[j].sources = messages[i].sources
                            /\ IsPrefix(messages[i].text, messages'[j].text)
      ]_vars

\* the stream ended and the bubble of whitespace behind [MSG_BREAK] is gone
C27_Witness ==
    /\ generationSessionIdRef = 1
    /\ hs[1].pc = "done"
    /\ hs[1].resp = BlankTailUnits
    /\ idClock = 3
    /\ Len(ResponseBubbles(messages)) = 1

(***************************************************************************)
(* C28: on every message with turnComplete exactly the input and output     *)
(* transcription accumulated since the turnComplete before it is appended   *)
(* to the transcript (user first, then bot, each when not blank) and both   *)
(* accumulators are reset, whenever the state updater runs: once no         *)
(* updater is queued, the transcript is the text of the turns as spoken.    *)
(***************************************************************************)
C28_TurnCompleteFlushesTranscript ==
    tr.pending = 0 => tr.transcriptions = tr.spoken

\* the sample q / 65536 lies in [-1, 1]
InRange(q) == -SampleUnit <= q /\ q <= SampleUnit

(***************************************************************************)
(* C29: createBlob converts every sample in [-1, 1] to the sample scaled    *)
(* by 32768 and truncated toward zero, without wraparound; the frame holds  *)
(* one 16-bit value per sample, in order.                                   *)
(***************************************************************************)
C29_InRangeSamplesDoNotWrap ==
    blob.pc = "returned" =>
        /\ Len(blob.int16) = Len(blob.data)
        /\ Len(blob.frame) = 4 * ((2 * Len(blob.data) + 2) \div 3)
        /\ \A i \in 1..Len(blob.data) :
              InRange(blob.data[i]) => blob.int16[i] = Scaled(blob.data[i])

\* the bubbles created for the response of the first message: every
\* message made takes its id from the clock, the user message the first
BubblesCreated == idClock - 1

(***************************************************************************)
(* C30: every prose character of a response is applied exactly once and in  *)
(* order: after the stream has ended, the texts of the bot bubbles created  *)
(* for the response, concatenated, are the textChunk values concatenated    *)
(* with the complete directives removed (when the cleanup at the end of    *)
(* the stream removed no bubble).                                           *)
(***************************************************************************)
C30_ProseAppliedExactlyOnce ==
    (hs[1].pc = "done" /\ BubblesCreated = Len(ResponseBubbles(messages))) =>
        Concat(ResponseBubbles(messages)) = ProseOf(ResponseText(hs[1].resp))

\* handleStopLive asked session k to close (line 192): close() was called,
\* or is chained to the promise that is still pending
StoppedSession(t, k) == t.conn[k] = "closing" \/ t.closeOnResolve[k]

\* a callback of session k runs: onopen, onmessage, onerror or onclose
CallbackOf(k) ==
    \/ OnOpen(k)
    \/ \E m \in Inbound : OnMessage(k, m)
    \/ \E closeFollows \in BOOLEAN : OnError(k, closeFollows)
    \/ OnClose(k)

\* the step leaves session j and everything made for it as it was
SessionUntouched(j) ==
    /\ talk'.isLive = talk.isLive
    /\ talk'.mic[j] = talk.mic[j]
    /\ talk'.inCtx[j] = talk.inCtx[j]
    /\ talk'.outCtx[j] = talk.outCtx[j]
    /\ talk'.node[j] = talk.node[j]
    /\ talk'.conn[j] = talk.conn[j]
    /\ talk'.closeOnResolve[j] = talk.closeOnResolve[j]

\* the step connects no capture node of session k to the stream of j
NotWiredOnto(k, j) ==
    (talk.node[k].state # "connected" /\ talk'.node[k].state = "connected")
        => talk'.node[k].stream # j

(***************************************************************************)
(* C31: a callback of a live session that was already stopped (a late       *)
(* onopen, onmessage, onerror or onclose) never changes the state or the    *)
(* resources of a session started afterwards: it does not tear the newer    *)
(* session down and wires no capture node onto the newer session's          *)
(* microphone stream.                                                       *)
(***************************************************************************)
C31_LateCallbacksLeaveNewerSession ==
    [][ \A k \in Starts, j \in Starts :
           ( /\ k < j
             /\ StoppedSession(talk, k)
             /\ talk.conn[j] \in {"connecting", "open"}
             /\ CallbackOf(k) )
           => SessionUntouched(j) /\ NotWiredOnto(k, j)
      ]_vars

(***************************************************************************)
(* C32: no microphone stream is leaked: in every reachable state each       *)
(* microphone stream that handleStartLive acquired is the one streamRef     *)
(* points to or has had its tracks stopped, also when two start             *)
(* invocations overlap while the first microphone request is pending.       *)
(***************************************************************************)
C32_NoMicrophoneStreamLeaked ==
    \A k \in LiveMics(talk) : talk.streamRef = k

(***************************************************************************)
(* C33: the running cursor carries no delay across sessions: the first      *)
(* inbound audio frame of a live session that was started after the         *)
(* previous one ended is scheduled to start at the time the output          *)
(* context's clock showed when the frame arrived, not at a later time left  *)
(* in nextStartTimeRef by the previous session.                             *)
(***************************************************************************)
C33_CursorNotCarriedAcrossSessions ==
    \A i \in 1..Len(sched) :
        ( /\ sched[i].first
          /\ sched[i].alone
          \* no other handler moved the cursor while this one was suspended
          /\ sched[i].start = sched[i].due )
            => sched[i].start = sched[i].arrival

\* the calls made on a session: those chained to its promise have run once
\* the promise has resolved
CallsMade(t, k) ==
    IF t.conn[k] \in {"none", "connecting", "rejected"} THEN <<>>
    ELSE t.calls[k]

\* some send comes behind a close() in the sequence of calls
SendAfterClose(q) ==
    \E i, j \in 1..Len(q) : i < j /\ q[i] = "close" /\ q[j] = "send"

(***************************************************************************)
(* C35: no outbound audio frame is sent on a session after close() was      *)
(* called on that session: every sendRealtimeInput for a frame captured     *)
(* before teardown precedes the close() of handleStopLive, and a frame      *)
(* captured after teardown is not sent on that session at all.              *)
(***************************************************************************)
C35_NoSendAfterClose ==
    \A k \in Starts : ~SendAfterClose(CallsMade(talk, k))

\* blocks captured while the promise was pending were sent when it
\* resolved, and the close() that a stop chained to the pending promise ran
\* behind them
C35_Witness ==
    \E k \in Starts :
        /\ talk.blocks[k] = "sent"
        /\ talk.closeOnResolve[k]
        /\ CallsMade(talk, k) = <<"send", "close">>

\* the stream of invocation s has not ended
InFlight(h) == h.pc \in {"await", "wait"}

(***************************************************************************)
(* C34: while the stream of the most recently sent message is in flight,    *)
(* isLoading is true: a superseded handleSend that completes, fails or is   *)
(* cancelled leaves isLoading as it is and removes no message but its own   *)
(* empty bubble (the cleanup at the end of a stream does not run);          *)
(* isLoading is false once the most recent stream has ended.                *)
(***************************************************************************)
C34_LoadingFollowsLatestStream ==
    [][ /\ (generationSessionIdRef' >= 1
              /\ InFlight(hs'[generationSessionIdRef'])) => isLoading'
        /\ \A s \in Sessions :
              (s < generationSessionIdRef /\ hs'[s] # hs[s]) =>
                 /\ isLoading' = isLoading
                 /\ \A i \in 1..Len(messages) :
                       messages[i].id # hs[s].cur =>
                          \E j \in 1..Len(messages') :
                              messages'[j].id = messages[i].id
        /\ (generationSessionIdRef >= 1
              /\ InFlight(hs[generationSessionIdRef])
              /\ ~InFlight(hs'[generationSessionIdRef'])) => ~isLoading'
      ]_vars

\* the superseded first stream has ended while the second is in flight; a
\* blank bubble that the cleanup would remove is in the list
C34_Witness ==
    /\ generationSessionIdRef = 2
    /\ hs[1].pc = "done"
    /\ InFlight(hs[2])
    /\ isLoading
    /\ \E i \in 1..Len(messages) : ~HasContentMsg(messages[i])

====
